---- MODULE Spec2Model ----
(***************************************************************************)
(* County land-record profiler: the fingerprinter (_get_pattern), the      *)
(* streaming county aggregator (process_record, generate_report) and the   *)
(* doc-type canonicalizer (normalize).                                      *)
(*                                                                         *)
(* A Python str is a sequence of one-character strings, so that upper(),   *)
(* the regular expressions, split() and sorted() are computed character by *)
(* character.  A Python dict / Counter / defaultdict is a sequence of      *)
(* [k, v] entries in insertion order.  A datetime.date is <<y, m, d>>.     *)
(***************************************************************************)
EXTENDS Integers, Sequences, FiniteSets, TLC

VARIABLES
  counties,   \* defaultdict(CountyData) of the run, in insertion order
  stream,     \* the ParsedRecords processed so far, in file order
  today,      \* datetime.date.today() of the run
  pc,         \* position of main(): "stream", "report", "written", or the
              \* exception that ended it
  report,     \* generate_report(counties) once main() has built it
  program,    \* the script whose main() runs: "pattern_analyzer" or "main"
  run,        \* how many times main() has been entered in this process
  output,     \* the reports written to county_patterns.json, one per
              \* open(output_path, "w"); the file holds the last one
  parts,      \* the county tables of two workers that share the stream
  merged,     \* the two workers' tables merged
  value,      \* fingerprinter: the raw string
  pattern,    \* fingerprinter: _get_pattern(value)
  repattern,  \* fingerprinter: _get_pattern(pattern)
  fpc,        \* fingerprinter: "raw", "once", "twice"
  raw,        \* canonicalizer: the raw doc_type
  key,        \* canonicalizer: normalize(raw)
  rekey,      \* canonicalizer: normalize(key)
  permuted,   \* canonicalizer: the words of raw in another order
  permkey,    \* canonicalizer: normalize(permuted)
  npc,        \* canonicalizer: "raw", "once", "twice"
  tok,        \* stemmer: the token given to stem_word
  stemmed,    \* stemmer: stem_word(tok)
  spc,        \* stemmer: "token", "stemmed"
  docs,       \* classifier: the doc_type of every line of the input file
  raw_to_norm,      \* classifier: raw doc_type -> canonical key
  norms,      \* classifier: unique_norms, the sorted list of the canonical keys
  sent,       \* classifier: the batches classify_batch was called with, in order
  sleeps,     \* classifier: the number of calls of time.sleep(SLEEP_SEC)
  norm_to_category, \* classifier: canonical key -> category
  raw_to_category,  \* classifier: raw doc_type -> category
  enriched,   \* classifier: the doc_type_category of every line written
  cpc         \* classifier: position of main(), or the exception that ended it

runVars   == <<program, run, output>>
partVars  == <<parts, merged>>
aggVars   == <<counties, stream, today, pc, report, runVars, partVars>>
patVars   == <<value, pattern, repattern, fpc>>
stemVars  == <<tok, stemmed, spc>>
normVars  == <<raw, key, rekey, permuted, permkey, npc, stemVars>>
classVars == <<docs, raw_to_norm, norms, sent, sleeps,
               norm_to_category, raw_to_category, enriched, cpc>>
vars      == <<counties, stream, today, pc, report, program, run, output,
               parts, merged,
               value, pattern, repattern, fpc,
               raw, key, rekey, permuted, permkey, npc,
               tok, stemmed, spc,
               docs, raw_to_norm, norms, sent, sleeps,
               norm_to_category, raw_to_category, enriched, cpc>>

\* Python None, comparable with every str and date of the model
None == <<"None">>

(***************************************************************************)
(* Characters                                                              *)
(***************************************************************************)
DIGITS == <<"0","1","2","3","4","5","6","7","8","9">>
LOWER  == <<"a","b","c","d","e","f","g","h","i","j","k","l","m",
            "n","o","p","q","r","s","t","u","v","w","x","y","z">>
UPPER  == <<"A","B","C","D","E","F","G","H","I","J","K","L","M",
            "N","O","P","Q","R","S","T","U","V","W","X","Y","Z">>

\* The characters of the model in code-point order (what sorted() compares).
CodeOrder ==
  <<"\t", " ", "!", "\"", "#", "&", "'", "(", ")", "*", ",", "-", ".", "/">>
  \o DIGITS \o <<":">> \o UPPER \o <<"\\", "_">> \o LOWER \o <<"{", "}">>

Range(s) == { s[i] : i \in 1..Len(s) }

IndexOf(s, c) == CHOOSE i \in 1..Len(s) : s[i] = c

Ord(c) == IndexOf(CodeOrder, c)

isdigit(c) == c \in Range(DIGITS)
islower(c) == c \in Range(LOWER)
isupper(c) == c \in Range(UPPER)

\* str.upper() on one character
upper_char(c) == IF islower(c) THEN UPPER[IndexOf(LOWER, c)] ELSE c

\* str.upper()
upper(s) == [i \in 1..Len(s) |-> upper_char(s[i])]

\* str(n) of a non-negative int
RECURSIVE str_int(_)
str_int(n) == IF n < 10 THEN <<DIGITS[n + 1]>>
              ELSE str_int(n \div 10) \o <<DIGITS[(n % 10) + 1]>>

\* int(s) of an all-digit str
RECURSIVE int_str(_)
int_str(s) == IF Len(s) = 0 THEN 0
              ELSE 10 * int_str(SubSeq(s, 1, Len(s) - 1))
                   + (IndexOf(DIGITS, s[Len(s)]) - 1)

\* s < t as Python compares str (code points, then length)
RECURSIVE str_lt(_, _)
str_lt(s, t) ==
  IF Len(t) = 0 THEN FALSE
  ELSE IF Len(s) = 0 THEN TRUE
  ELSE IF s[1] = t[1] THEN str_lt(Tail(s), Tail(t))
  ELSE Ord(s[1]) < Ord(t[1])

(***************************************************************************)
(* Fingerprinter                                                           *)
(***************************************************************************)
\* which alternative of \d+|[a-z]+|[A-Z]+ a character belongs to
char_class(c) == IF isdigit(c) THEN "d"
                 ELSE IF islower(c) THEN "l"
                 ELSE IF isupper(c) THEN "u"
                 ELSE "other"

\* the length of the run of class cls that starts at position i of v
RECURSIVE run_len(_, _, _)
run_len(v, i, cls) ==
  IF i <= Len(v) /\ char_class(v[i]) = cls THEN 1 + run_len(v, i + 1, cls) ELSE 0

\* the regular expression \d+|[a-z]+|[A-Z]+ tried at position i of v:
\* the length of its match there (0: no match)
match_len(v, i) ==
  IF run_len(v, i, "d") > 0 THEN run_len(v, i, "d")
  ELSE IF run_len(v, i, "l") > 0 THEN run_len(v, i, "l")
  ELSE run_len(v, i, "u")

\* a replacer that returns an upper-case run as it is
replacer_upper_kept(token) ==
  IF isdigit(token[1]) THEN <<"\\", "d", "{">> \o str_int(Len(token)) \o <<"}">>
  ELSE IF islower(token[1]) THEN <<"\\", "l", "{">> \o str_int(Len(token)) \o <<"}">>
  ELSE token

\* a replacer that classifies the run by its first character but counts
\* a replacer that writes every run as a run of digits
replacer_one_class(token) ==
  <<"\\", "d", "{">> \o str_int(Len(token)) \o <<"}">>

\* one character per run
replacer_no_length(token) ==
  IF isdigit(token[1]) THEN <<"\\", "d", "{", "1", "}">>
  ELSE IF islower(token[1]) THEN <<"\\", "l", "{", "1", "}">>
  ELSE <<"\\", "u", "{", "1", "}">>

replacer(token) ==
  IF isdigit(token[1]) THEN <<"\\", "d", "{">> \o str_int(Len(token)) \o <<"}">>
  ELSE IF islower(token[1]) THEN <<"\\", "l", "{">> \o str_int(Len(token)) \o <<"}">>
  ELSE <<"\\", "u", "{">> \o str_int(Len(token)) \o <<"}">>

\* re.sub(r'\d+|[a-z]+|[A-Z]+', replacer, v) from position i on
RECURSIVE re_sub_runs(_, _)
re_sub_runs(v, i) ==
  IF i > Len(v) THEN <<>>
  ELSE LET n == match_len(v, i) IN
       IF n > 0 THEN replacer(SubSeq(v, i, i + n - 1)) \o re_sub_runs(v, i + n)
       ELSE <<v[i]>> \o re_sub_runs(v, i + 1)

_get_pattern(v) == re_sub_runs(v, 1)

(***************************************************************************)
(* dict / Counter / defaultdict: entries [k, v] in insertion order         *)
(***************************************************************************)
dict_keys(d) == { d[i].k : i \in 1..Len(d) }

dict_has(d, k) == k \in dict_keys(d)

dict_get(d, k) == d[CHOOSE i \in 1..Len(d) : d[i].k = k].v

\* defaultdict.__getitem__ without the insertion: the value, or the default
dict_get_default(d, k, default) == IF dict_has(d, k) THEN dict_get(d, k) ELSE default

\* d[k] = v
dict_put(d, k, v) ==
  IF dict_has(d, k)
  THEN [i \in 1..Len(d) |-> IF d[i].k = k THEN [k |-> k, v |-> v] ELSE d[i]]
  ELSE Append(d, [k |-> k, v |-> v])

\* sorted(s, key=..., reverse=True), keys[i] being the key of s[i]:
\* descending, equal keys in their order in s
sorted_desc(s, keys) ==
  LET rank(i) == 1 + Cardinality({ j \in 1..Len(s) :
                      \/ keys[j] > keys[i]
                      \/ keys[j] = keys[i] /\ j < i })
  IN  [p \in 1..Len(s) |-> s[CHOOSE i \in 1..Len(s) : rank(i) = p]]

\* sorted(s) of a list of str: ascending, equal strings in their order in s
sorted_str(s) ==
  LET rank(i) == 1 + Cardinality({ j \in 1..Len(s) :
                      \/ str_lt(s[j], s[i])
                      \/ s[j] = s[i] /\ j < i })
  IN  [p \in 1..Len(s) |-> s[CHOOSE i \in 1..Len(s) : rank(i) = p]]

\* sorted(S) of a set of str
sorted_set(S) ==
  LET rank(x) == 1 + Cardinality({ y \in S : str_lt(y, x) })
  IN  [p \in 1..Cardinality(S) |-> CHOOSE x \in S : rank(x) = p]

(***************************************************************************)
(* Utilities                                                               *)
(***************************************************************************)
isspace(c) == c \in {" ", "\t"}

\* str.strip()
RECURSIVE strip(_)
strip(s) ==
  IF Len(s) = 0 THEN s
  ELSE IF isspace(s[1]) THEN strip(Tail(s))
  ELSE IF isspace(s[Len(s)]) THEN strip(SubSeq(s, 1, Len(s) - 1))
  ELSE s

_clean_str(v) == strip(IF v = None \/ v = <<>> THEN <<>> ELSE v)

is_digits(s) == \A i \in 1..Len(s) : isdigit(s[i])

\* str.isdigit()
str_isdigit(s) == Len(s) > 0 /\ is_digits(s)

is_leap(y) == (y % 4 = 0 /\ y % 100 # 0) \/ y % 400 = 0

days_in_month(y, m) ==
  IF m = 2 THEN (IF is_leap(y) THEN 29 ELSE 28)
  ELSE IF m \in {4, 6, 9, 11} THEN 30 ELSE 31

\* datetime.date.fromisoformat on a 10-character str: the date, or None
\* where it raises ValueError
fromisoformat(s) ==
  IF /\ is_digits(SubSeq(s, 1, 4)) /\ s[5] = "-"
     /\ is_digits(SubSeq(s, 6, 7)) /\ s[8] = "-"
     /\ is_digits(SubSeq(s, 9, 10))
  THEN LET y == int_str(SubSeq(s, 1, 4))
           m == int_str(SubSeq(s, 6, 7))
           d == int_str(SubSeq(s, 9, 10))
       IN  IF y >= 1 /\ m \in 1..12 /\ d >= 1 /\ d <= days_in_month(y, m)
           THEN <<y, m, d>> ELSE None
  ELSE None

_parse_date(r) ==
  IF r = None \/ Len(r) < 10 THEN None ELSE fromisoformat(SubSeq(r, 1, 10))

\* a < b on datetime.date
date_lt(a, b) ==
  \/ a[1] < b[1]
  \/ a[1] = b[1] /\ a[2] < b[2]
  \/ a[1] = b[1] /\ a[2] = b[2] /\ a[3] < b[3]

RECURSIVE zfill(_, _)
zfill(s, w) == IF Len(s) >= w THEN s ELSE zfill(<<"0">> \o s, w)

\* str(date): YYYY-MM-DD
str_date(d) ==
  zfill(str_int(d[1]), 4) \o <<"-">> \o zfill(str_int(d[2]), 2)
    \o <<"-">> \o zfill(str_int(d[3]), 2)

(***************************************************************************)
(* Data classes                                                            *)
(***************************************************************************)
\* a page bound: float('inf'), float('-inf') or an int n
Inf    == <<"inf", 0>>
NegInf == <<"-inf", 0>>
Num(n) == <<"int", n>>

\* a min that keeps the first int it was given
py_min_first(a, num) == IF a = Inf THEN Num(num) ELSE a

\* a max that takes the last int it was given
py_max_last(a, num) == Num(num)

\* min(a, num), max(a, num) of a page bound a and an int num
py_min(a, num) == IF a = Inf \/ (a[1] = "int" /\ num < a[2]) THEN Num(num) ELSE a
py_max(a, num) == IF a = NegInf \/ (a[1] = "int" /\ num > a[2]) THEN Num(num) ELSE a

InstrumentPatternInfo == [example |-> <<>>, count |-> 0]

BookPatternInfo == [page_patterns |-> <<>>, min_page |-> Inf, max_page |-> NegInf]

\* Counter: c[k] += 1
counter_inc(c, k) == dict_put(c, k, dict_get_default(c, k, 0) + 1)

\* BookPatternInfo.add_page
add_page(bp, v) ==
  IF v = <<>> THEN bp
  ELSE LET counted == [bp EXCEPT !.page_patterns = counter_inc(@, _get_pattern(v))]
       IN  IF str_isdigit(v)
           THEN [counted EXCEPT !.min_page = py_min(@, int_str(v)),
                                !.max_page = py_max(@, int_str(v))]
           ELSE counted

_MIN_DATE == <<1900, 1, 1>>

DateRange == [earliest |-> None, latest |-> None, anomalies |-> {}]

\* min(filter(None, [a, date])), max(filter(None, [a, date]))
min_date(a, date) == IF a = None THEN date ELSE IF date_lt(date, a) THEN date ELSE a
max_date(a, date) == IF a = None THEN date ELSE IF date_lt(a, date) THEN date ELSE a

\* a DateRange.update that folds every date into the bounds
update_no_anomaly(dr, date, td) ==
  IF date = None THEN dr
  ELSE [dr EXCEPT !.earliest = min_date(@, date), !.latest = max_date(@, date)]

\* a DateRange.update that seeds the bounds and never folds a later date
update_first_only(dr, date, td) ==
  IF date = None THEN dr
  ELSE IF date_lt(date, _MIN_DATE) \/ date_lt(td, date)
  THEN [dr EXCEPT !.anomalies = @ \cup {str_date(date)}]
  ELSE [dr EXCEPT !.earliest = IF @ = None THEN date ELSE @,
                  !.latest = IF @ = None THEN date ELSE @]

\* DateRange.update, td being datetime.date.today()
update(dr, date, td) ==
  IF date = None THEN dr
  ELSE IF date_lt(date, _MIN_DATE) \/ date_lt(td, date)
  THEN [dr EXCEPT !.anomalies = @ \cup {str_date(date)}]
  ELSE [dr EXCEPT !.earliest = min_date(@, date), !.latest = max_date(@, date)]

DocTypeTracker == [counts |-> <<>>]

\* DocTypeTracker.add
add(dt, doc_type) ==
  IF doc_type # <<>> THEN [dt EXCEPT !.counts = counter_inc(@, doc_type)] ELSE dt

unique_count(dt) == Len(dt.counts)

\* Counter.most_common()
most_common(c) == sorted_desc(c, [i \in 1..Len(c) |-> c[i].v])

\* a top_n that takes the first n doc_types counted, whatever their counts
top_n_first_seen(dt, n) ==
  SubSeq(dt.counts, 1, IF Len(dt.counts) < n THEN Len(dt.counts) ELSE n)

\* DocTypeTracker.top_n
top_n(dt, n) == LET all == most_common(dt.counts)
                IN  SubSeq(all, 1, IF Len(all) < n THEN Len(all) ELSE n)

CountyData ==
  [record_count |-> 0, instrument_patterns |-> <<>>, book_patterns |-> <<>>,
   date_range |-> DateRange, doc_types |-> DocTypeTracker]

\* ParsedRecord.from_row
from_row(row) ==
  [county            |-> _clean_str(row.county),
   instrument_number |-> _clean_str(row.instrument_number),
   book              |-> _clean_str(row.book),
   page              |-> _clean_str(row.page),
   date              |-> _parse_date(row.date),
   doc_type          |-> _clean_str(row.doc_type)]

(***************************************************************************)
(* Processing                                                              *)
(***************************************************************************)
\* the instrument-pattern step of a process_record that keeps the first example
instrument_step_first_wins(ip, inst_pat, instrument_number) ==
  LET old == dict_get_default(ip, inst_pat, InstrumentPatternInfo)
  IN  dict_put(ip, inst_pat,
        [count |-> old.count + 1,
         example |-> IF old.count = 0 THEN instrument_number ELSE old.example])

\* the instrument-pattern step of a process_record that skips empty numbers
instrument_step_skip_empty(ip, inst_pat, instrument_number) ==
  IF instrument_number = <<>> THEN ip
  ELSE dict_put(ip, inst_pat,
         [count |-> dict_get_default(ip, inst_pat, InstrumentPatternInfo).count + 1,
          example |-> instrument_number])

\* an instrument-pattern step that also looks up the pattern of the empty
\* instrument_number, and so creates its entry when none was there
instrument_step_probes_empty(ip, inst_pat, instrument_number) ==
  LET put == dict_put(ip, inst_pat,
               [count |-> dict_get_default(ip, inst_pat, InstrumentPatternInfo).count + 1,
                example |-> instrument_number])
  IN  dict_put(put, <<>>, dict_get_default(put, <<>>, InstrumentPatternInfo))

\* county.instrument_patterns[inst_pat].count += 1; .example = instrument_number
instrument_step(ip, inst_pat, instrument_number) ==
  dict_put(ip, inst_pat,
    [count |-> dict_get_default(ip, inst_pat, InstrumentPatternInfo).count + 1,
     example |-> instrument_number])

\* a process_record whose county buckets all share one DocTypeTracker
process_record_shared_tracker(record, cs, td) ==
  LET county   == dict_get_default(cs, record.county, CountyData)
      inst_pat == _get_pattern(record.instrument_number)
      book_pat == _get_pattern(record.book)
      bp       == dict_get_default(county.book_patterns, book_pat, BookPatternInfo)
      put      == dict_put(cs, record.county,
        [record_count        |-> county.record_count + 1,
         instrument_patterns |-> instrument_step(county.instrument_patterns,
                                                 inst_pat, record.instrument_number),
         book_patterns       |-> dict_put(county.book_patterns, book_pat,
                                          add_page(bp, record.page)),
         date_range          |-> update(county.date_range, record.date, td),
         doc_types           |-> add(county.doc_types, record.doc_type)])
  IN  [i \in 1..Len(put) |->
        IF put[i].k = record.county THEN put[i]
        ELSE [k |-> put[i].k,
              v |-> [put[i].v EXCEPT !.doc_types = add(@, record.doc_type)]]]

\* a process_record that drops the records that have no county
process_record_skip_no_county(record, cs, td) ==
  IF record.county = <<>> THEN cs
  ELSE dict_put(cs, record.county,
         [dict_get_default(cs, record.county, CountyData)
            EXCEPT !.record_count = @ + 1])

\* process_record(record, counties), td being datetime.date.today()
process_record(record, cs, td) ==
  LET county   == dict_get_default(cs, record.county, CountyData)
      inst_pat == _get_pattern(record.instrument_number)
      book_pat == _get_pattern(record.book)
      bp       == dict_get_default(county.book_patterns, book_pat, BookPatternInfo)
  IN  dict_put(cs, record.county,
        [record_count        |-> county.record_count + 1,
         instrument_patterns |-> instrument_step(county.instrument_patterns,
                                                 inst_pat, record.instrument_number),
         book_patterns       |-> dict_put(county.book_patterns, book_pat,
                                          add_page(bp, record.page)),
         date_range          |-> update(county.date_range, record.date, td),
         doc_types           |-> add(county.doc_types, record.doc_type)])

\* main(): the loop over the records of the stream, from the county table cs
RECURSIVE aggregate(_, _, _)
aggregate(records, cs, td) ==
  IF Len(records) = 0 THEN cs
  ELSE aggregate(Tail(records), process_record(records[1], cs, td), td)

(***************************************************************************)
(* Report generation                                                       *)
(***************************************************************************)
\* round(x, 2) of x = num / den >= 0, in hundredths: round-half-even, as
\* Python rounds a float (exact for the totals of the model, below 160)
round2(num, den) ==
  LET q == (num * 100) \div den
      r == (num * 100) % den
  IN  IF 2 * r > den \/ (2 * r = den /\ q % 2 = 1) THEN q + 1 ELSE q

\* round((count / total) * 100, 2) if total else 0, in hundredths of a percent
percentage(count, total) == IF total # 0 THEN round2(count * 100, total) ELSE 0

\* a _build_instrument_patterns that sorts ascending and reverses the list
_build_instrument_patterns_reversed(data, total) ==
  LET ip == data.instrument_patterns
      patterns == [i \in 1..Len(ip) |->
        [pattern    |-> ip[i].k,
         regex      |-> <<"^">> \o ip[i].k \o <<"$">>,
         example    |-> ip[i].v.example,
         count      |-> ip[i].v.count,
         percentage |-> percentage(ip[i].v.count, total)]]
      ascending == sorted_desc(patterns, [i \in 1..Len(patterns) |-> 0 - patterns[i].count])
  IN  [i \in 1..Len(ascending) |-> ascending[Len(ascending) + 1 - i]]

_build_instrument_patterns(data, total) ==
  LET ip == data.instrument_patterns
      patterns == [i \in 1..Len(ip) |->
        [pattern    |-> ip[i].k,
         regex      |-> <<"^">> \o ip[i].k \o <<"$">>,
         example    |-> ip[i].v.example,
         count      |-> ip[i].v.count,
         percentage |-> percentage(ip[i].v.count, total)]]
  IN  sorted_desc(patterns, [i \in 1..Len(patterns) |-> patterns[i].count])

RECURSIVE sum_counts(_)
sum_counts(s) == IF Len(s) = 0 THEN 0 ELSE s[1].count + sum_counts(Tail(s))

_build_book_patterns(data) ==
  LET bps == data.book_patterns
      patterns == [i \in 1..Len(bps) |->
        [pattern       |-> bps[i].k,
         regex         |-> <<"^">> \o bps[i].k \o <<"$">>,
         page_patterns |-> LET mc == most_common(bps[i].v.page_patterns)
                           IN  [j \in 1..Len(mc) |-> [pattern |-> mc[j].k, count |-> mc[j].v]],
         page_min      |-> IF bps[i].v.min_page # Inf THEN bps[i].v.min_page[2] ELSE None,
         page_max      |-> IF bps[i].v.max_page # NegInf THEN bps[i].v.max_page[2] ELSE None]]
  IN  sorted_desc(patterns,
        [i \in 1..Len(patterns) |-> sum_counts(patterns[i].page_patterns)])

TOP_N == 10

generate_report(cs) ==
  [i \in 1..Len(cs) |->
    [k |-> cs[i].k,
     v |-> LET data == cs[i].v IN
       [record_count          |-> data.record_count,
        instrument_patterns   |-> _build_instrument_patterns(data, data.record_count),
        book_patterns         |-> _build_book_patterns(data),
        date_range            |->
          [earliest  |-> IF data.date_range.earliest # None
                         THEN str_date(data.date_range.earliest) ELSE None,
           latest    |-> IF data.date_range.latest # None
                         THEN str_date(data.date_range.latest) ELSE None,
           anomalies |-> sorted_set(data.date_range.anomalies)],
        doc_type_distribution |-> top_n(data.doc_types, TOP_N),
        unique_doc_types      |-> unique_count(data.doc_types)]]]

(***************************************************************************)
(* Canonicalizer                                                           *)
(***************************************************************************)
ABBREVIATIONS ==
  << <<<<"D","/","T">>, <<"D","E","E","D"," ","T","R","U","S","T">>>>,
     <<<<"D","O","T">>, <<"D","E","E","D"," ","T","R","U","S","T">>>>,
     <<<<"D"," ","T","R">>, <<"D","E","E","D"," ","T","R","U","S","T">>>>,
     <<<<"D","T","R">>, <<"D","E","E","D"," ","T","R","U","S","T">>>>,
     <<<<"W","A","R","R">>, <<"W","A","R","R","A","N","T","Y">>>>,
     <<<<"W","D">>, <<"W","A","R","R","A","N","T","Y"," ","D","E","E","D">>>>,
     <<<<"W","/","D">>, <<"W","A","R","R","A","N","T","Y"," ","D","E","E","D">>>>,
     <<<<"M","T","G">>, <<"M","O","R","T","G","A","G","E">>>>,
     <<<<"M","O","R","G">>, <<"M","O","R","T","G","A","G","E">>>>,
     <<<<"M","O","R","T","G">>, <<"M","O","R","T","G","A","G","E">>>>,
     <<<<"R","E","L">>, <<"R","E","L","E","A","S","E">>>>,
     <<<<"S","A","T">>, <<"S","A","T","I","S","F","A","C","T","I","O","N">>>>,
     <<<<"S","A","T","I","S">>, <<"S","A","T","I","S","F","A","C","T","I","O","N">>>>,
     <<<<"L","N">>, <<"L","I","E","N">>>>,
     <<<<"A","S","S","N">>, <<"A","S","S","I","G","N","M","E","N","T">>>>,
     <<<<"A","S","S","G","N">>, <<"A","S","S","I","G","N","M","E","N","T">>>>,
     <<<<"A","S","G","N">>, <<"A","S","S","I","G","N","M","E","N","T">>>>,
     <<<<"E","S","M","T">>, <<"E","A","S","E","M","E","N","T">>>>,
     <<<<"A","M","E","N","D">>, <<"A","M","E","N","D","M","E","N","T">>>>,
     <<<<"A","M","D">>, <<"A","M","E","N","D","M","E","N","T">>>>,
     <<<<"A","G","R","M","T">>, <<"A","G","R","E","E","M","E","N","T">>>>,
     <<<<"A","G","R">>, <<"A","G","R","E","E","M","E","N","T">>>>,
     <<<<"D","E","C","L">>, <<"D","E","C","L","A","R","A","T","I","O","N">>>>,
     <<<<"P","O","A">>, <<"P","O","W","E","R"," ","A","T","T","O","R","N","E","Y">>>>,
     <<<<"P","/","A">>, <<"P","O","W","E","R"," ","A","T","T","O","R","N","E","Y">>>>,
     <<<<"S","U","B","O","R","D">>, <<"S","U","B","O","R","D","I","N","A","T","I","O","N">>>>,
     <<<<"S","U","B">>, <<"S","U","B","O","R","D","I","N","A","T","I","O","N">>>>,
     <<<<"F","O","R","E","C","L">>, <<"F","O","R","E","C","L","O","S","U","R","E">>>>,
     <<<<"N","T","C">>, <<"N","O","T","I","C","E">>>>,
     <<<<"N","O","T">>, <<"N","O","T","I","C","E">>>>,
     <<<<"J","U","D","G">>, <<"J","U","D","G","M","E","N","T">>>>,
     <<<<"J","D","G">>, <<"J","U","D","G","M","E","N","T">>>>,
     <<<<"C","E","R","T">>, <<"C","E","R","T","I","F","I","C","A","T","E">>>>,
     <<<<"T","R">>, <<"T","R","U","S","T","E","E">>>>,
     <<<<"T","R","S","T">>, <<"T","R","U","S","T","E","E">>>>,
     <<<<"C","O","R","P">>, <<"C","O","R","P","O","R","A","T","I","O","N">>>> >>

STOP_WORDS ==
  { <<"O","F">>,
    <<"A","N","D">>,
    <<"T","H","E">>,
    <<"O","R">>,
    <<"F","O","R">>,
    <<"T","O">>,
    <<"A">>,
    <<"A","N">>,
    <<"I","N">>,
    <<"A","T">>,
    <<"B","Y">> }

STEM_PROTECT ==
  { <<"D","E","E","D">>,
    <<"T","R","U","S","T">>,
    <<"L","I","E","N">>,
    <<"N","O","T","I","C","E">>,
    <<"L","E","A","S","E">>,
    <<"R","E","L","E","A","S","E">>,
    <<"T","R","U","S","T","E","E">>,
    <<"M","O","R","T","G","A","G","E">>,
    <<"C","E","R","T","I","F","I","C","A","T","E">>,
    <<"A","G","R","E","E","M","E","N","T">>,
    <<"J","U","D","G","M","E","N","T">>,
    <<"A","S","S","I","G","N","M","E","N","T">>,
    <<"E","A","S","E","M","E","N","T">>,
    <<"A","M","E","N","D","M","E","N","T">>,
    <<"D","E","C","L","A","R","A","T","I","O","N">>,
    <<"S","U","B","O","R","D","I","N","A","T","I","O","N">>,
    <<"F","O","R","E","C","L","O","S","U","R","E">>,
    <<"S","A","T","I","S","F","A","C","T","I","O","N">>,
    <<"W","A","R","R","A","N","T","Y">>,
    <<"R","E","S","T","R","I","C","T","I","O","N">>,
    <<"C","O","V","E","N","A","N","T">>,
    <<"P","O","W","E","R">>,
    <<"A","T","T","O","R","N","E","Y">>,
    <<"M","O","D","I","F","I","C","A","T","I","O","N">>,
    <<"A","F","F","I","D","A","V","I","T">> }

STEM_RULES ==
  << <<<<"C","A","T","I","O","N","S">>, <<"C","A","T","E">>>>,
     <<<<"C","A","T","I","O","N">>, <<"C","A","T","E">>>>,
     <<<<"A","T","I","O","N","S">>, <<"A","T","E">>>>,
     <<<<"A","T","I","O","N">>, <<"A","T","E">>>>,
     <<<<"I","N","G","S">>, <<>>>>,
     <<<<"I","N","G">>, <<>>>>,
     <<<<"A","N","C","E","S">>, <<"A","N","C","E">>>>,
     <<<<"E","N","C","E","S">>, <<"E","N","C","E">>>>,
     <<<<"I","T","I","E","S">>, <<"I","T","Y">>>>,
     <<<<"T","I","O","N","S">>, <<"T","I","O","N">>>>,
     <<<<"S","I","O","N","S">>, <<"S","I","O","N">>>>,
     <<<<"S","E","S">>, <<"S","E">>>>,
     <<<<"I","E","S">>, <<"Y">>>>,
     <<<<"E","S">>, <<"E">>>> >>

\* \w of the regular expressions
is_word_char(c) == isdigit(c) \/ islower(c) \/ isupper(c) \/ c = "_"

endswith(w, suffix) ==
  Len(w) >= Len(suffix) /\ SubSeq(w, Len(w) - Len(suffix) + 1, Len(w)) = suffix

\* the last rule of the table whose suffix ends the word and leaves at
\* least 3 characters; 0 if there is none
last_stem_rule(word) ==
  LET hits == { n \in 1..Len(STEM_RULES) :
                  /\ endswith(word, STEM_RULES[n][1])
                  /\ Len(word) - Len(STEM_RULES[n][1]) >= 3 }
  IN  IF hits = {} THEN 0 ELSE CHOOSE n \in hits : \A m \in hits : n >= m

\* the first rule of the table, in its order, whose suffix ends the word and
\* leaves at least 3 characters; 0 if there is none
first_stem_rule(word) ==
  LET hits == { n \in 1..Len(STEM_RULES) :
                  /\ endswith(word, STEM_RULES[n][1])
                  /\ Len(word) - Len(STEM_RULES[n][1]) >= 3 }
  IN  IF hits = {} THEN 0 ELSE CHOOSE n \in hits : \A m \in hits : n <= m

stem_word(word) ==
  IF word \in STEM_PROTECT \/ Len(word) <= 4 THEN word
  ELSE LET n == first_stem_rule(word) IN
       IF n > 0
       THEN SubSeq(word, 1, Len(word) - Len(STEM_RULES[n][1])) \o STEM_RULES[n][2]
       ELSE IF endswith(word, <<"S">>) /\ ~endswith(word, <<"S", "S">>) /\ Len(word) > 4
       THEN SubSeq(word, 1, Len(word) - 1)
       ELSE word

\* (?<!\w)abbr(?!\w) matches s at position i
abbr_matches_at(s, i, abbr) ==
  /\ i + Len(abbr) - 1 <= Len(s)
  /\ SubSeq(s, i, i + Len(abbr) - 1) = abbr
  /\ (i = 1 \/ ~is_word_char(s[i - 1]))
  /\ (i + Len(abbr) > Len(s) \/ ~is_word_char(s[i + Len(abbr)]))

\* the first position from i on where the expression matches s; 0 if none
next_abbr_match(s, i, abbr) ==
  LET hits == { j \in i..Len(s) : abbr_matches_at(s, j, abbr) }
  IN  IF hits = {} THEN 0 ELSE CHOOSE j \in hits : \A m \in hits : j <= m

\* re.sub(rf"(?<!\w){re.escape(abbr)}(?!\w)", expansion, s) from position i on:
\* the matches are replaced from left to right, the search going on after each
RECURSIVE re_sub_abbr(_, _, _, _)
re_sub_abbr(s, i, abbr, expansion) ==
  LET j == next_abbr_match(s, i, abbr) IN
  IF j = 0 THEN SubSeq(s, i, Len(s))
  ELSE SubSeq(s, i, j - 1) \o expansion
         \o re_sub_abbr(s, j + Len(abbr), abbr, expansion)

\* the loop over ABBREVIATIONS.items(), from entry n on
RECURSIVE expand_abbreviations(_, _)
expand_abbreviations(s, n) ==
  IF n > Len(ABBREVIATIONS) THEN s
  ELSE LET t == re_sub_abbr(s, 1, ABBREVIATIONS[n][1], ABBREVIATIONS[n][2])
       IN  \* (no expression matches the empty string, which stays as it is)
           IF Len(t) = 0 THEN t ELSE expand_abbreviations(t, n + 1)

PUNCTUATION == { ".", "-", "/", "&", ",", "(", ")", "#", "*", "'", "\"", "\\" }

\* re.sub(r"[.\-/&,()#*'\"\\]", " ", s)
replace_punctuation(s) ==
  [i \in 1..Len(s) |-> IF s[i] \in PUNCTUATION THEN " " ELSE s[i]]

\* re.sub(r"\s+", " ", s): every run of whitespace becomes one space
collapse_whitespace(s) ==
  LET kept == { i \in 1..Len(s) : ~isspace(s[i]) \/ i = 1 \/ ~isspace(s[i - 1]) }
      at(p) == CHOOSE i \in kept : Cardinality({ j \in kept : j < i }) = p - 1
  IN  [p \in 1..Cardinality(kept) |-> IF isspace(s[at(p)]) THEN " " ELSE s[at(p)]]

\* the length of the run of non-whitespace characters that starts s
RECURSIVE word_len(_)
word_len(s) == IF Len(s) = 0 \/ isspace(s[1]) THEN 0 ELSE 1 + word_len(Tail(s))

\* str.split()
RECURSIVE split(_)
split(s) ==
  IF Len(s) = 0 THEN <<>>
  ELSE IF isspace(s[1]) THEN split(Tail(s))
  ELSE <<SubSeq(s, 1, word_len(s))>> \o split(SubSeq(s, word_len(s) + 1, Len(s)))

\* " ".join(words)
RECURSIVE join(_)
join(words) ==
  IF Len(words) = 0 THEN <<>>
  ELSE IF Len(words) = 1 THEN words[1]
  ELSE words[1] \o <<" ">> \o join(Tail(words))

\* ABBREVIATIONS.get(w, w)
abbreviation_get(w) ==
  IF \E n \in 1..Len(ABBREVIATIONS) : ABBREVIATIONS[n][1] = w
  THEN ABBREVIATIONS[CHOOSE n \in 1..Len(ABBREVIATIONS) : ABBREVIATIONS[n][1] = w][2]
  ELSE w

\* a sorted() that leaves the words in their order
sorted_words_unsorted(words) == words

\* sorted(words)
sorted_words(words) == sorted_str(words)

normalize(r) ==
  IF r = <<>> \/ r = None THEN <<>>
  ELSE LET s1 == upper(r)
           s2 == expand_abbreviations(s1, 1)
           s3 == replace_punctuation(s2)
           s4 == strip(collapse_whitespace(s3))
           w1 == split(s4)
           w2 == [i \in 1..Len(w1) |-> abbreviation_get(w1[i])]
           w3 == split(join(w2))
           w4 == SelectSeq(w3, LAMBDA w : w \notin STOP_WORDS)
           w5 == [i \in 1..Len(w4) |-> stem_word(w4[i])]
           w6 == SelectSeq(w5, LAMBDA w : w # <<>>)
           w7 == sorted_words(w6)
       IN  strip(join(w7))

(***************************************************************************)
(* Entry point: the rows of the input file, and main()                     *)
(***************************************************************************)
MaxRecords == 3

\* the county keys of the input rows (a row may have none)
RowCounties == { None, <<"W","A","K","E">> }

\* what the other keys of an input row may hold
RowPayloads ==
  { [instrument_number |-> <<"2","0","2","3","-","0","0","1","2","3","4","5">>,
     book |-> <<"1","2">>, page |-> <<"5">>,
     date |-> <<"2","0","2","0","-","0","1","-","0","1">>,
     doc_type |-> <<"D","/","T">>],
    [instrument_number |-> <<"2","0","2","4","-","0","0","0","0","0","0","7">>,
     book |-> <<"1","2">>, page |-> <<"1","0">>,
     date |-> <<"1","8","9","9","-","1","2","-","3","1">>,
     doc_type |-> <<"D","E","E","D"," ","T","R","U","S","T">>],
    [instrument_number |-> <<"A","B","-","1","2">>,
     book |-> <<"B","7">>, page |-> <<"3","A">>,
     date |-> <<"2","0","1","9","-","0","5","-","0","5","T","0","8",":","3","0",":","0","0">>,
     doc_type |-> <<"D","/","T">>],
    [instrument_number |-> None,
     book |-> None, page |-> None,
     date |-> None,
     doc_type |-> None],
    [instrument_number |-> <<" ","2","0","2","3","-","0","0","1","2","3","4","5"," ">>,
     book |-> <<"1","2">>, page |-> <<>>,
     date |-> <<"2","9","9","9","-","0","1","-","0","1">>,
     doc_type |-> <<"d","e","e","d">>],
    [instrument_number |-> <<>>,
     book |-> <<>>, page |-> <<"7">>,
     date |-> <<"2","0","2","0","-","1","3","-","0","1">>,
     doc_type |-> <<"D","E","E","D"," ","T","R","U","S","T">>] }

\* the rows stream_jsonl may yield
Rows ==
  { [county |-> c, instrument_number |-> p.instrument_number, book |-> p.book,
     page |-> p.page, date |-> p.date, doc_type |-> p.doc_type] :
    c \in RowCounties, p \in RowPayloads }

\* the dates datetime.date.today() may return in a run
Todays == { <<2019, 12, 31>>, <<2026, 11, 5>> }

InitPat  == value = <<>> /\ pattern = None /\ repattern = None /\ fpc = "idle"
InitStem == tok = <<>> /\ stemmed = None /\ spc = "idle"
InitNorm == /\ raw = <<>> /\ key = None /\ rekey = None
            /\ permuted = None /\ permkey = None /\ npc = "idle"
            /\ InitStem
InitClass == /\ docs = <<>> /\ raw_to_norm = <<>> /\ norm_to_category = <<>>
             /\ norms = <<>> /\ sent = <<>> /\ sleeps = 0
             /\ raw_to_category = <<>> /\ enriched = <<>> /\ cpc = "idle"
InitPart == parts = <<>> /\ merged = None

\* python pattern_analyzer.py: main() is entered for the first time
Init ==
  /\ counties = <<>>
  /\ stream = <<>>
  /\ today \in Todays
  /\ pc = "stream"
  /\ report = None
  /\ program = "pattern_analyzer"
  /\ run = 1
  /\ output = <<>>
  /\ InitPart
  /\ InitPat
  /\ InitNorm
  /\ InitClass

\* an iteration that counts the doc_type under its canonical key
ProcessRow_canonical_doc_type(row) ==
  /\ pc = "stream"
  /\ counties' = process_record(
                    [from_row(row) EXCEPT !.doc_type = normalize(@)], counties, today)
  /\ stream' = Append(stream, from_row(row))
  /\ UNCHANGED <<today, pc, report, runVars, partVars, patVars, normVars, classVars>>

\* main(): one iteration of the loop over stream_jsonl
ProcessRow(row) ==
  /\ pc = "stream"
  /\ counties' = process_record(from_row(row), counties, today)
  /\ stream' = Append(stream, from_row(row))
  /\ UNCHANGED <<today, pc, report, runVars, partVars, patVars, normVars, classVars>>

\* a report step that looks the empty county key up in the defaultdict, and
\* so creates its bucket when no record had that key
GenerateReport_creates_bucket ==
  /\ pc = "stream"
  /\ report' = generate_report(counties)
  /\ counties' = dict_put(counties, <<>>, dict_get_default(counties, <<>>, CountyData))
  /\ pc' = "report"
  /\ UNCHANGED <<stream, today, runVars, partVars, patVars, normVars, classVars>>

\* main(): the stream is exhausted, the report is built
GenerateReport ==
  /\ pc = "stream"
  /\ report' = generate_report(counties)
  /\ pc' = "report"
  /\ UNCHANGED <<counties, stream, today, runVars, partVars, patVars, normVars, classVars>>

Next ==
  \/ \E row \in Rows : Len(stream) < MaxRecords /\ ProcessRow(row)
  \/ GenerateReport

Spec == Init /\ [][Next]_vars

(***************************************************************************)
(* Properties of the aggregation                                           *)
(***************************************************************************)
\* the records of the stream with county key c, in file order
CountyRecords(c) == SelectSeq(stream, LAMBDA r : r.county = c)

RECURSIVE sum_pattern_counts(_)
sum_pattern_counts(ip) ==
  IF Len(ip) = 0 THEN 0 ELSE ip[1].v.count + sum_pattern_counts(Tail(ip))

\* C1: in every county bucket the counts of the instrument patterns sum to
\* record_count, records with an empty instrument_number included.
C1_InstrumentCountsSumToRecordCount ==
  \A i \in 1..Len(counties) :
    /\ sum_pattern_counts(counties[i].v.instrument_patterns) = counties[i].v.record_count
    /\ counties[i].v.record_count = Len(CountyRecords(counties[i].k))

\* a bucket with two patterns, one of them that of the empty instrument_number
C1_Witness ==
  \E i \in 1..Len(counties) :
    /\ Len(counties[i].v.instrument_patterns) >= 2
    /\ dict_has(counties[i].v.instrument_patterns, <<>>)
    /\ counties[i].v.record_count = 3

\* the non-null dates of the records of county c
CountyDates(c) ==
  { CountyRecords(c)[j].date : j \in 1..Len(CountyRecords(c)) } \ {None}

in_range(d) == ~date_lt(d, <<1900, 1, 1>>) /\ ~date_lt(today, d)

date_le(a, b) == ~date_lt(b, a)

ScenarioDates == { <<2020, 1, 1>>, <<1899, 12, 31>>, <<2019, 5, 5>> }

\* C2: earliest and latest are the minimum and maximum of the dates of the
\* county within [1900-01-01, today] (None if there is none), anomalies is
\* exactly the set of ISO strings of the dates outside it; the dates
\* 2020-01-01, 1899-12-31, 2019-05-05 give 2019-05-05, 2020-01-01 and
\* {1899-12-31}.
C2_DateRangeIsMinMaxAndAnomalies ==
  \A i \in 1..Len(counties) :
    LET dr    == counties[i].v.date_range
        dates == CountyDates(counties[i].k)
        valid == { d \in dates : in_range(d) }
    IN  /\ IF valid = {} THEN dr.earliest = None /\ dr.latest = None
           ELSE /\ dr.earliest \in valid /\ \A d \in valid : date_le(dr.earliest, d)
                /\ dr.latest \in valid /\ \A d \in valid : date_le(d, dr.latest)
        /\ \A d \in dates \ valid :
             \E a \in dr.anomalies :
               /\ Len(a) = 10 /\ a[5] = "-" /\ a[8] = "-"
               /\ int_str(SubSeq(a, 1, 4)) = d[1]
               /\ int_str(SubSeq(a, 6, 7)) = d[2]
               /\ int_str(SubSeq(a, 9, 10)) = d[3]
        /\ Cardinality(dr.anomalies) = Cardinality(dates \ valid)
        /\ (dates = ScenarioDates /\ date_le(<<2020, 1, 1>>, today)) =>
             /\ dr.earliest = <<2019, 5, 5>>
             /\ dr.latest = <<2020, 1, 1>>
             /\ dr.anomalies = { <<"1","8","9","9","-","1","2","-","3","1">> }

\* a bucket that has seen exactly the three dates of the scenario
C2_Witness ==
  \E i \in 1..Len(counties) :
    /\ CountyDates(counties[i].k) = ScenarioDates
    /\ date_le(<<2020, 1, 1>>, today)
    /\ counties[i].v.date_range.anomalies # {}

\* C3: in every step, a date range's earliest, once set, never increases, its
\* latest never decreases, its anomalies never lose an element, and a step
\* whose record has an anomalous date leaves earliest and latest unchanged.
C3_DateRangeMonotonic ==
  [][\A i \in 1..Len(counties) :
       LET old == counties[i].v.date_range
           new == dict_get(counties', counties[i].k).date_range
           rec == stream'[Len(stream')]
       IN  /\ dict_has(counties', counties[i].k)
           /\ old.earliest # None =>
                new.earliest # None /\ date_le(new.earliest, old.earliest)
           /\ old.latest # None =>
                new.latest # None /\ date_le(old.latest, new.latest)
           /\ old.anomalies \subseteq new.anomalies
           /\ (/\ Len(stream') > Len(stream)
               /\ rec.county = counties[i].k
               /\ rec.date # None
               /\ ~in_range(rec.date)) =>
                /\ new.earliest = old.earliest
                /\ new.latest = old.latest
                /\ new.anomalies # {}]_vars

\* a bucket whose bounds were set before an anomalous date arrived last
C3_Witness ==
  \E i \in 1..Len(counties) :
    LET recs == CountyRecords(counties[i].k)
    IN  /\ Len(recs) = 3
        /\ recs[1].date # None /\ in_range(recs[1].date)
        /\ recs[2].date # None /\ in_range(recs[2].date)
        /\ recs[2].date # recs[1].date
        /\ recs[3].date # None /\ ~in_range(recs[3].date)
        /\ counties[i].v.date_range.earliest # counties[i].v.date_range.latest

\* the index in pats of the last occurrence of pat
LastIndexOf(pats, pat) ==
  CHOOSE j \in 1..Len(pats) :
    pats[j] = pat /\ \A n \in (j + 1)..Len(pats) : pats[n] # pat

\* C10: the example of an instrument pattern is the raw instrument_number of
\* the last record of the county, in stream order, that has the pattern.
C10_ExampleIsLastWrite ==
  \A i \in 1..Len(counties) :
    LET recs == CountyRecords(counties[i].k)
        pats == [j \in 1..Len(recs) |-> _get_pattern(recs[j].instrument_number)]
        ip   == counties[i].v.instrument_patterns
    IN  \A n \in 1..Len(ip) :
          /\ \E j \in 1..Len(pats) : pats[j] = ip[n].k
          /\ ip[n].v.example = recs[LastIndexOf(pats, ip[n].k)].instrument_number

\* a pattern seen twice in a county with two different raw values, the
\* example being the later one
C10_Witness ==
  \E i \in 1..Len(counties) :
    LET recs == CountyRecords(counties[i].k)
        ip   == counties[i].v.instrument_patterns
    IN  /\ Len(recs) = 2
        /\ Len(ip) = 1
        /\ recs[1].instrument_number # recs[2].instrument_number
        /\ ip[1].v.example = recs[2].instrument_number
        /\ ip[1].v.count = 2

\* C11: a record without book and/or page is either left out of the book
\* statistics or counted in a page-pattern count, so no county ever holds a
\* book-pattern entry whose page-pattern counts are empty.
C11_NoBookPatternWithoutPages ==
  \A i \in 1..Len(counties) :
    \A n \in 1..Len(counties[i].v.book_patterns) :
      counties[i].v.book_patterns[n].v.page_patterns # <<>>

(***************************************************************************)
(* The fingerprinter on its own: a raw value, fingerprinted once and again *)
(***************************************************************************)
MaxPatLen == 3

PatAlphabet == { "2", "0", "A", "B", "b", "-", "\\", "{", "}" }

Sample_2023 == <<"2","0","2","3","-","0","0","1","2","3","4","5">>
Sample_AB12 == <<"A","B","-","1","2">>
Sample_Long == <<"0","1","2","3","4","5","6","7","8","9","0","1","2">>
Sample_Braces == <<"\\","d","{","4","}">>

\* the raw values: every string over PatAlphabet up to MaxPatLen, and samples
PatValues ==
  UNION { [1..n -> PatAlphabet] : n \in 0..MaxPatLen }
    \cup { Sample_2023, Sample_AB12, Sample_Long, Sample_Braces }

InitAggIdle ==
  /\ counties = <<>> /\ stream = <<>> /\ today = <<2026, 11, 5>>
  /\ pc = "idle" /\ report = None
  /\ program = "pattern_analyzer" /\ run = 0 /\ output = <<>>
  /\ InitPart

InitFingerprint ==
  /\ InitAggIdle
  /\ InitNorm
  /\ InitClass
  /\ value \in PatValues
  /\ pattern = None
  /\ repattern = None
  /\ fpc = "raw"

\* a caller applies _get_pattern to the raw value
Fingerprint ==
  /\ fpc = "raw"
  /\ pattern' = _get_pattern(value)
  /\ fpc' = "once"
  /\ UNCHANGED <<value, repattern, aggVars, normVars, classVars>>

\* a caller applies _get_pattern to the derived pattern
Refingerprint ==
  /\ fpc = "once"
  /\ repattern' = _get_pattern(pattern)
  /\ fpc' = "twice"
  /\ UNCHANGED <<value, pattern, aggVars, normVars, classVars>>

NextFingerprint == Fingerprint \/ Refingerprint

SpecFingerprint == InitFingerprint /\ [][NextFingerprint]_vars

\* the run of v that position i belongs to starts at i
RunStartsAt(v, i) == i = 1 \/ char_class(v[i - 1]) # char_class(v[i])

\* the length of the maximal run of v that starts at i
RunLength(v, i) ==
  CHOOSE n \in 1..(Len(v) - i + 1) :
    /\ \A j \in i..(i + n - 1) : char_class(v[j]) = char_class(v[i])
    /\ (i + n > Len(v) \/ char_class(v[i + n]) # char_class(v[i]))

\* what position i of v contributes to the pattern
PieceAt(v, i) ==
  IF char_class(v[i]) = "other" THEN <<v[i]>>
  ELSE IF RunStartsAt(v, i)
  THEN <<"\\", char_class(v[i]), "{">> \o str_int(RunLength(v, i)) \o <<"}">>
  ELSE <<>>

RECURSIVE PiecesFrom(_, _)
PiecesFrom(v, i) ==
  IF i > Len(v) THEN <<>> ELSE PieceAt(v, i) \o PiecesFrom(v, i + 1)

\* C7: every maximal run of digits, lower-case or upper-case letters becomes
\* \d{n}, \l{n}, \u{n} with n its length, every other character is copied;
\* "2023-0012345" gives \d{4}-\d{7} and "AB-12" gives \u{2}-\d{2}.
C7_PatternIsRunLengthShape ==
  fpc # "raw" =>
    /\ pattern = PiecesFrom(value, 1)
    /\ value = Sample_2023 => pattern = <<"\\","d","{","4","}","-","\\","d","{","7","}">>
    /\ value = Sample_AB12 => pattern = <<"\\","u","{","2","}","-","\\","d","{","2","}">>
    /\ value = Sample_Long => pattern = <<"\\","d","{","1","3","}">>

\* "AB-12" fingerprinted
C7_Witness ==
  /\ fpc = "once"
  /\ value = Sample_AB12
  /\ pattern = <<"\\","u","{","2","}","-","\\","d","{","2","}">>

has_alnum(v) == \E i \in 1..Len(v) : char_class(v[i]) # "other"

\* C8 as stated: for every raw value the pattern of the pattern differs from
\* the pattern.
C8_NeverFixedPoint == fpc = "twice" => repattern # pattern

\* C8 as amended: the pattern of the pattern differs from the pattern for
\* every raw value that holds a digit or an ASCII letter; a raw value that
\* holds none (the empty string included) is its own pattern, a fixed point.
C8_NotFixedPointIffAlnum ==
  fpc = "twice" =>
    /\ has_alnum(value) => repattern # pattern /\ Len(repattern) > Len(pattern)
    /\ ~has_alnum(value) => pattern = value /\ repattern = pattern

\* a value with an upper-case run, fingerprinted twice
C8_Witness ==
  /\ fpc = "twice"
  /\ value = Sample_AB12
  /\ repattern # pattern

(***************************************************************************)
(* The canonicalizer on its own: a raw doc_type, normalized, its key        *)
(* normalized again, and the same words in another order normalized         *)
(***************************************************************************)
MaxWords == 2

\* the whitespace-separated words a raw doc_type is made of
Vocabulary ==
  { <<"D","E","E","D">>,
    <<"O","F">>,
    <<"T","R","U","S","T">>,
    <<"D","/","T">>,
    <<"D">>,
    <<"T","R">>,
    <<"L","I","C","E","N","S","I","N","G">>,
    <<"d","e","e","d","s">>,
    <<"M","T","G">>,
    <<"A","S","S","N","S">> }

Words_FORING_FEE == << <<"F","O","R","I","N","G">>, <<"F","E","E">> >>

Words_DEED_OF_TRUST == << <<"D","E","E","D">>, <<"O","F">>, <<"T","R","U","S","T">> >>

\* the raw doc_types as lists of words: up to MaxWords words, and a sample
WordLists ==
  UNION { [1..n -> Vocabulary] : n \in 0..MaxWords }
    \cup { Words_DEED_OF_TRUST, Words_FORING_FEE }

\* the orders in which n words can be written
Orders(n) == { f \in [1..n -> 1..n] : \A i, j \in 1..n : f[i] = f[j] => i = j }

InitNormalize ==
  /\ InitAggIdle
  /\ InitPat
  /\ InitClass
  /\ \E ws \in WordLists : \E f \in Orders(Len(ws)) :
       /\ raw = join(ws)
       /\ permuted = join([i \in 1..Len(ws) |-> ws[f[i]]])
  /\ key = None
  /\ rekey = None
  /\ permkey = None
  /\ npc = "raw"
  /\ InitStem

\* normalize(raw)
Normalize ==
  /\ npc = "raw"
  /\ key' = normalize(raw)
  /\ npc' = "once"
  /\ UNCHANGED <<raw, rekey, permuted, permkey, stemVars, aggVars, patVars, classVars>>

\* normalize of the key normalize returned
Renormalize ==
  /\ npc = "once"
  /\ rekey' = normalize(key)
  /\ npc' = "twice"
  /\ UNCHANGED <<raw, key, permuted, permkey, stemVars, aggVars, patVars, classVars>>

\* normalize of the words of raw in the other order
NormalizePermuted ==
  /\ npc = "twice"
  /\ permkey' = normalize(permuted)
  /\ npc' = "done"
  /\ UNCHANGED <<raw, key, rekey, permuted, stemVars, aggVars, patVars, classVars>>

NextNormalize == Normalize \/ Renormalize \/ NormalizePermuted

SpecNormalize == InitNormalize /\ [][NextNormalize]_vars

Key_DEED_TRUST == <<"D","E","E","D"," ","T","R","U","S","T">>

\* C4: normalize("DEED OF TRUST"), normalize("TRUST DEED") and
\* normalize("D/T") are all the key "DEED TRUST".
C4_DeedOfTrustVariantsCollapse ==
  (npc # "raw" /\ raw \in { <<"D","E","E","D"," ","O","F"," ","T","R","U","S","T">>,
                            <<"T","R","U","S","T"," ","D","E","E","D">>,
                            <<"D","/","T">> })
    => key = Key_DEED_TRUST

\* "D/T" normalized
C4_Witness ==
  /\ npc = "once"
  /\ raw = <<"D","/","T">>
  /\ key = Key_DEED_TRUST

\* C5: normalize is idempotent on its own output: normalize(normalize(x))
\* is normalize(x) for every input x.
C5_NormalizeIdempotent == npc \in {"twice", "done"} => rekey = key

\* C6: two inputs made of the same whitespace-separated words in a different
\* order have the same canonical key.
C6_WordOrderInvariant == npc = "done" => permkey = key

(***************************************************************************)
(* main() on input files in which the rows of a county have instrument     *)
(* numbers of pairwise different shapes: 7, 77, 777, ...                    *)
(***************************************************************************)
MaxShapes == 31

\* a row of county c whose instrument_number is n digits long
ShapeRow(c, n) ==
  [county |-> c, instrument_number |-> [i \in 1..n |-> "7"], book |-> None,
   page |-> None, date |-> None, doc_type |-> None]

NextShapes ==
  \/ \E c \in RowCounties :
       /\ Len(stream) < MaxShapes
       /\ stream # <<>> => stream[1].county = _clean_str(c)
       /\ ProcessRow(ShapeRow(c, Len(stream) + 1))
  \/ GenerateReport

SpecShapes == Init /\ [][NextShapes]_vars

RECURSIVE sum_percentages(_)
sum_percentages(ps) ==
  IF Len(ps) = 0 THEN 0 ELSE ps[1].percentage + sum_percentages(Tail(ps))

\* C9: in every county of the report every instrument-pattern percentage is
\* within [0, 100] and the percentages of the county sum to 100 within 0.1
\* (percentages in hundredths of a percent).
C9_PercentagesSumTo100 ==
  pc = "report" =>
    \A i \in 1..Len(report) :
      LET ps == report[i].v.instrument_patterns
      IN  /\ \A n \in 1..Len(ps) : ps[n].percentage >= 0 /\ ps[n].percentage <= 10000
          /\ sum_percentages(ps) >= 10000 - 10
          /\ sum_percentages(ps) <= 10000 + 10

(***************************************************************************)
(* The report of main() against the records of the stream                  *)
(***************************************************************************)
\* the non-empty raw doc_types of the records of county c
CountyDocTypes(c) ==
  { CountyRecords(c)[j].doc_type : j \in 1..Len(CountyRecords(c)) } \ { <<>> }

Raw_D_T == <<"D","/","T">>

\* the canonical keys of the raw doc_types "D/T" and "DEED TRUST"
Key_of_D_T        == normalize(Raw_D_T)
Key_of_DEED_TRUST == normalize(Key_DEED_TRUST)

\* C12: the doc-type counter of a county has one entry per distinct raw
\* doc_type of its records, whatever their canonical keys: with "D/T" and
\* "DEED TRUST" in a county, both of key "DEED TRUST", doc_type_distribution
\* lists the two separately and unique_doc_types counts both.
C12_DocTypesKeyedByRaw ==
  /\ \A i \in 1..Len(counties) :
       LET counts == counties[i].v.doc_types.counts
           seen   == CountyDocTypes(counties[i].k)
       IN  /\ { counts[n].k : n \in 1..Len(counts) } = seen
           /\ Len(counts) = Cardinality(seen)
  /\ pc = "report" =>
       \A i \in 1..Len(report) :
         LET dist == report[i].v.doc_type_distribution
             seen == CountyDocTypes(report[i].k)
         IN  /\ report[i].v.unique_doc_types = Cardinality(seen)
             /\ { Raw_D_T, Key_DEED_TRUST } \subseteq seen =>
                  /\ Key_of_D_T = Key_DEED_TRUST
                  /\ Key_of_DEED_TRUST = Key_DEED_TRUST
                  /\ dict_has(dist, Raw_D_T)
                  /\ dict_has(dist, Key_DEED_TRUST)
                  /\ report[i].v.unique_doc_types >= 2

\* the report of a county that saw "D/T" once and "DEED TRUST" once
C12_Witness ==
  /\ pc = "report"
  /\ \E i \in 1..Len(report) :
       LET dist == report[i].v.doc_type_distribution
       IN  /\ CountyDocTypes(report[i].k) = { Raw_D_T, Key_DEED_TRUST }
           /\ Len(dist) = 2
           /\ dict_get(dist, Raw_D_T) = 1
           /\ dict_get(dist, Key_DEED_TRUST) = 1
           /\ report[i].v.unique_doc_types = 2

\* x is None, for an x that is None or an int (a page_min, a page_max)
is_null(x) == ToString(x) = ToString(None)

same_bound(a, b) == is_null(a) = is_null(b) /\ (~is_null(a) => a = b)

\* two book_patterns lists of a report are equal, entry by entry
same_book_patterns(a, b) ==
  /\ Len(a) = Len(b)
  /\ \A n \in 1..Len(a) :
       /\ a[n].pattern = b[n].pattern
       /\ a[n].regex = b[n].regex
       /\ a[n].page_patterns = b[n].page_patterns
       /\ same_bound(a[n].page_min, b[n].page_min)
       /\ same_bound(a[n].page_max, b[n].page_max)

\* two report entries of a county are equal, list orders included
same_county_report(a, b) ==
  /\ a.record_count = b.record_count
  /\ a.instrument_patterns = b.instrument_patterns
  /\ same_book_patterns(a.book_patterns, b.book_patterns)
  /\ a.date_range = b.date_range
  /\ a.doc_type_distribution = b.doc_type_distribution
  /\ a.unique_doc_types = b.unique_doc_types

\* C13: the report of every county is the same for every order of the
\* records of the stream: same entries, same examples, same list orders.
C13_ReportOrderInvariant ==
  pc = "report" =>
    \A f \in Orders(Len(stream)) :
      LET reordered == [i \in 1..Len(stream) |-> stream[f[i]]]
          other     == generate_report(aggregate(reordered, <<>>, today))
      IN  \A i \in 1..Len(report) :
            /\ dict_has(other, report[i].k)
            /\ same_county_report(dict_get(other, report[i].k), report[i].v)

\* C15: the step that processes a record of county A leaves the bucket of
\* every other county as it was (record_count, instrument patterns, book
\* patterns, date range, doc types) and creates no bucket but A's.
C15_OtherCountiesUnchanged ==
  [][Len(stream') > Len(stream) =>
       LET rec == stream'[Len(stream')]
       IN  /\ dict_has(counties', rec.county)
           /\ \A i \in 1..Len(counties) :
                counties[i].k # rec.county =>
                  /\ dict_has(counties', counties[i].k)
                  /\ dict_get(counties', counties[i].k) = counties[i].v
           /\ \A j \in 1..Len(counties') :
                counties'[j].k = rec.county \/ dict_has(counties, counties'[j].k)
           /\ Len(counties') =
                Len(counties) + (IF dict_has(counties, rec.county) THEN 0 ELSE 1)]_vars

\* a record of one county processed after two records of another
C15_Witness ==
  /\ Len(stream) = 3
  /\ stream[1].county = stream[2].county
  /\ stream[3].county # stream[1].county
  /\ Len(counties) = 2
  /\ counties[1].v.record_count = 2
  /\ counties[2].v.record_count = 1

\* the index in pats of the first occurrence of pat
FirstIndexOf(pats, pat) ==
  CHOOSE j \in 1..Len(pats) :
    pats[j] = pat /\ \A n \in 1..(j - 1) : pats[n] # pat

\* C19: instrument_patterns of a county's report has one entry per distinct
\* instrument pattern of the county's records, with its count, in descending
\* order of count, entries of equal count in the order in which their
\* patterns were first seen in the stream.
C19_InstrumentPatternsByCountThenFirstSeen ==
  pc = "report" =>
    \A i \in 1..Len(report) :
      LET recs == CountyRecords(report[i].k)
          pats == [j \in 1..Len(recs) |-> _get_pattern(recs[j].instrument_number)]
          ps   == report[i].v.instrument_patterns
      IN  /\ { ps[n].pattern : n \in 1..Len(ps) } = Range(pats)
          /\ Len(ps) = Cardinality(Range(pats))
          /\ \A n \in 1..Len(ps) :
               ps[n].count = Cardinality({ j \in 1..Len(pats) : pats[j] = ps[n].pattern })
          /\ \A n \in 1..(Len(ps) - 1) :
               \/ ps[n].count > ps[n + 1].count
               \/ /\ ps[n].count = ps[n + 1].count
                  /\ FirstIndexOf(pats, ps[n].pattern) < FirstIndexOf(pats, ps[n + 1].pattern)

\* a report with three patterns of count 1, listed as they were first seen,
\* which is not their order as strings
C19_Witness ==
  /\ pc = "report"
  /\ \E i \in 1..Len(report) :
       LET recs == CountyRecords(report[i].k)
           ps   == report[i].v.instrument_patterns
       IN  /\ Len(recs) = 3
           /\ Len(ps) = 3
           /\ \A n \in 1..3 : ps[n].pattern = _get_pattern(recs[n].instrument_number)
           /\ str_lt(ps[2].pattern, ps[1].pattern)

\* C20: for every book pattern of the report, page_min and page_max are null
\* exactly when no record of the county with that book pattern has an
\* all-digit page, and are otherwise the least and the greatest of those
\* pages as integers; page_patterns is in descending order of count and
\* book_patterns in descending order of the sum of the page-pattern counts.
C20_PageBoundsAndOrders ==
  pc = "report" =>
    \A i \in 1..Len(report) :
      LET recs == CountyRecords(report[i].k)
          bps  == report[i].v.book_patterns
      IN  \A n \in 1..Len(bps) :
            LET pages == { int_str(recs[j].page) :
                           j \in { j \in 1..Len(recs) :
                                     /\ _get_pattern(recs[j].book) = bps[n].pattern
                                     /\ str_isdigit(recs[j].page) } }
                pp    == bps[n].page_patterns
            IN  /\ is_null(bps[n].page_min) = (pages = {})
                /\ is_null(bps[n].page_max) = (pages = {})
                /\ pages # {} =>
                     /\ bps[n].page_min \in pages
                     /\ bps[n].page_max \in pages
                     /\ \A q \in pages : bps[n].page_min <= q /\ q <= bps[n].page_max
                     /\ bps[n].page_min <= bps[n].page_max
                /\ \A m \in 1..(Len(pp) - 1) : pp[m].count >= pp[m + 1].count
                /\ n < Len(bps) =>
                     sum_counts(pp) >= sum_counts(bps[n + 1].page_patterns)

\* a report whose first book pattern has the pages 5 and 10, or 10 and 5,
\* and whose second has a page but no all-digit one
C20_Witness ==
  /\ pc = "report"
  /\ \E i \in 1..Len(report) :
       LET bps == report[i].v.book_patterns
       IN  /\ Len(bps) = 2
           /\ ~is_null(bps[1].page_min)
           /\ bps[1].page_min = 5
           /\ bps[1].page_max = 10
           /\ Len(bps[1].page_patterns) = 2
           /\ is_null(bps[2].page_min)
           /\ is_null(bps[2].page_max)
           /\ bps[2].page_patterns # <<>>

(***************************************************************************)
(* main() to its end, and main() entered again in the same process.        *)
(* pattern_analyzer.py keeps the county table in a local of main(),        *)
(* main.py in a module-level global.                                       *)
(***************************************************************************)
MaxRuns == 2

MaxRunRecords == 2

Programs == { "pattern_analyzer", "main" }

\* the rows of the input files of the runs
RunRows == { r \in Rows : r.page = <<"5">> }

\* how main() ends when stream_jsonl raises
Failures == { "FileNotFoundError", "JSONDecodeError" }

InitRuns ==
  /\ counties = <<>>
  /\ stream = <<>>
  /\ today \in Todays
  /\ pc = "stream"
  /\ report = None
  /\ program \in Programs
  /\ run = 1
  /\ output = <<>>
  /\ InitPart
  /\ InitPat
  /\ InitNorm
  /\ InitClass

\* stream_jsonl: there is no input file, open() raises on the first next()
OpenFails ==
  /\ pc = "stream"
  /\ stream = <<>>
  /\ pc' = "FileNotFoundError"
  /\ UNCHANGED <<counties, stream, today, report, runVars, partVars,
                 patVars, normVars, classVars>>

\* a json.loads failure after which main() dumps what it has aggregated
MalformedLine_dumps_partial ==
  /\ pc = "stream"
  /\ pc' = "JSONDecodeError"
  /\ output' = Append(output, generate_report(counties))
  /\ UNCHANGED <<counties, stream, today, report, program, run, partVars,
                 patVars, normVars, classVars>>

\* stream_jsonl: json.loads raises on the next non-blank line
MalformedLine ==
  /\ pc = "stream"
  /\ pc' = "JSONDecodeError"
  /\ UNCHANGED <<counties, stream, today, report, runVars, partVars,
                 patVars, normVars, classVars>>

\* main(): open(output_path, "w") and json.dump(report, f)
WriteReport ==
  /\ pc = "report"
  /\ output' = Append(output, report)
  /\ pc' = "written"
  /\ UNCHANGED <<counties, stream, today, report, program, run, partVars,
                 patVars, normVars, classVars>>

\* main() is entered again: pattern_analyzer.py builds a new table, main.py
\* goes on with the table of the module
Rerun ==
  /\ pc \in { "written" } \cup Failures
  /\ run < MaxRuns
  /\ counties' = IF program = "pattern_analyzer" THEN <<>> ELSE counties
  /\ stream' = <<>>
  /\ report' = None
  /\ pc' = "stream"
  /\ run' = run + 1
  /\ UNCHANGED <<today, program, output, partVars, patVars, normVars, classVars>>

NextRuns ==
  \/ \E row \in RunRows : Len(stream) < MaxRunRecords /\ ProcessRow(row)
  \/ GenerateReport
  \/ WriteReport
  \/ OpenFails
  \/ MalformedLine
  \/ Rerun

SpecRuns == InitRuns /\ [][NextRuns]_vars

\* C14: a second run of main() in the same process starts from an empty
\* county table, and its report holds the records of the second run only.
C14_SecondRunStartsEmpty ==
  run >= 2 =>
    /\ (pc = "stream" /\ stream = <<>>) => counties = <<>>
    /\ pc \in { "report", "written" } =>
         LET fresh == generate_report(aggregate(stream, <<>>, today))
         IN  /\ Len(report) = Len(fresh)
             /\ \A i \in 1..Len(report) :
                  /\ report[i].k = fresh[i].k
                  /\ same_county_report(report[i].v, fresh[i].v)

\* C17: a run either writes one complete report, built from every record of
\* the stream once the stream is exhausted, or fails and writes nothing: no
\* step into or out of a failure writes the output file, and the only step
\* that writes it is the one after the report was built, which writes that
\* report whole (in pattern_analyzer.py the report of exactly the records
\* of the stream).
C17_ReportWrittenWholeOrNotAtAll ==
  [][/\ (pc \in Failures \/ pc' \in Failures) => output' = output
     /\ pc' = "stream" => output' = output
     /\ pc' = "report" => output' = output
     /\ output' # output =>
          /\ pc = "report"
          /\ pc' = "written"
          /\ Len(output') = Len(output) + 1
          /\ SubSeq(output', 1, Len(output)) = output
          /\ output'[Len(output')] = generate_report(counties)
          /\ Len(stream') = Len(stream)
          /\ program = "pattern_analyzer" =>
               output'[Len(output')] = generate_report(aggregate(stream, <<>>, today))
     /\ Len(output') <= run'
     /\ pc' # "written" => Len(output') < run']_vars

\* a second run that failed on a malformed line after it had read a record:
\* the file still holds the report of the first run only
C17_Witness ==
  /\ run = 2
  /\ pc = "JSONDecodeError"
  /\ Len(stream) >= 1
  /\ Len(output) = 1
  /\ output[1] # generate_report(counties)

(***************************************************************************)
(* The stream aggregated by two workers, each record going to one of them, *)
(* and the two county tables merged: per-key summation of counts, min/max  *)
(* of the page bounds, union of the anomalies, null-safe min/max of the    *)
(* dates.  counties is the table of the one pass over the same stream.     *)
(***************************************************************************)
MaxPartRecords == 2

\* the keys of a, then the keys only b has
merged_keys(a, b) ==
  LET rest == SelectSeq(b, LAMBDA e : ~dict_has(a, e.k))
  IN  [i \in 1..Len(a) |-> a[i].k] \o [i \in 1..Len(rest) |-> rest[i].k]

\* per-key summation of two Counters
merge_counter(a, b) ==
  LET ks == merged_keys(a, b)
  IN  [i \in 1..Len(ks) |->
        [k |-> ks[i],
         v |-> dict_get_default(a, ks[i], 0) + dict_get_default(b, ks[i], 0)]]

\* min and max of two page bounds, either of which may be the sentinel
merge_min_page(a, b) ==
  IF a = Inf THEN b ELSE IF b = Inf THEN a ELSE IF b[2] < a[2] THEN b ELSE a
merge_max_page(a, b) ==
  IF a = NegInf THEN b ELSE IF b = NegInf THEN a ELSE IF b[2] > a[2] THEN b ELSE a

\* null-safe min and max of two dates
merge_earliest(a, b) ==
  IF a = None THEN b ELSE IF b = None THEN a ELSE IF date_lt(b, a) THEN b ELSE a
merge_latest(a, b) ==
  IF a = None THEN b ELSE IF b = None THEN a ELSE IF date_lt(a, b) THEN b ELSE a

merge_instrument_patterns(a, b) ==
  LET ks == merged_keys(a, b)
  IN  [i \in 1..Len(ks) |->
        LET x == dict_get_default(a, ks[i], InstrumentPatternInfo)
            y == dict_get_default(b, ks[i], InstrumentPatternInfo)
        IN  [k |-> ks[i],
             v |-> [count   |-> x.count + y.count,
                    example |-> IF y.count > 0 THEN y.example ELSE x.example]]]

merge_book_patterns(a, b) ==
  LET ks == merged_keys(a, b)
  IN  [i \in 1..Len(ks) |->
        LET x == dict_get_default(a, ks[i], BookPatternInfo)
            y == dict_get_default(b, ks[i], BookPatternInfo)
        IN  [k |-> ks[i],
             v |-> [page_patterns |-> merge_counter(x.page_patterns, y.page_patterns),
                    min_page      |-> merge_min_page(x.min_page, y.min_page),
                    max_page      |-> merge_max_page(x.max_page, y.max_page)]]]

merge_county(x, y) ==
  [record_count        |-> x.record_count + y.record_count,
   instrument_patterns |-> merge_instrument_patterns(x.instrument_patterns,
                                                     y.instrument_patterns),
   book_patterns       |-> merge_book_patterns(x.book_patterns, y.book_patterns),
   date_range          |->
     [earliest  |-> merge_earliest(x.date_range.earliest, y.date_range.earliest),
      latest    |-> merge_latest(x.date_range.latest, y.date_range.latest),
      anomalies |-> x.date_range.anomalies \cup y.date_range.anomalies],
   doc_types           |-> [counts |-> merge_counter(x.doc_types.counts,
                                                     y.doc_types.counts)]]

\* the merge of two county tables
merge(a, b) ==
  LET ks == merged_keys(a, b)
  IN  [i \in 1..Len(ks) |->
        [k |-> ks[i],
         v |-> merge_county(dict_get_default(a, ks[i], CountyData),
                            dict_get_default(b, ks[i], CountyData))]]

InitPartitioned ==
  /\ counties = <<>>
  /\ stream = <<>>
  /\ today \in Todays
  /\ pc = "stream"
  /\ report = None
  /\ program = "pattern_analyzer"
  /\ run = 1
  /\ output = <<>>
  /\ parts = << <<>>, <<>> >>
  /\ merged = None
  /\ InitPat
  /\ InitNorm
  /\ InitClass

\* the next record goes to worker p, and to the one pass
ProcessRowIn(p, row) ==
  /\ pc = "stream"
  /\ counties' = process_record(from_row(row), counties, today)
  /\ parts' = [parts EXCEPT ![p] = process_record(from_row(row), @, today)]
  /\ stream' = Append(stream, from_row(row))
  /\ UNCHANGED <<today, pc, report, runVars, merged, patVars, normVars, classVars>>

\* the stream is exhausted, the tables of the two workers are merged
Merge ==
  /\ pc = "stream"
  /\ merged' = merge(parts[1], parts[2])
  /\ pc' = "merged"
  /\ UNCHANGED <<counties, stream, today, report, runVars, parts,
                 patVars, normVars, classVars>>

NextPartitioned ==
  \/ \E p \in 1..2, row \in Rows : Len(stream) < MaxPartRecords /\ ProcessRowIn(p, row)
  \/ Merge

SpecPartitioned == InitPartitioned /\ [][NextPartitioned]_vars

\* a Counter as the set of its <<key, count>> pairs
count_set(c) == { <<c[n].k, c[n].v>> : n \in 1..Len(c) }

\* C16: for every county the merged tables of the two workers have the
\* record_count, the instrument-pattern counts, the page-pattern counts and
\* page bounds of every book pattern, and the earliest, latest and anomalies
\* of the one pass over the whole stream.
C16_MergeOfPartitionsIsOnePass ==
  pc = "merged" =>
    /\ Len(merged) = Len(counties)
    /\ \A i \in 1..Len(counties) :
         /\ dict_has(merged, counties[i].k)
         /\ LET one == counties[i].v
                two == dict_get(merged, counties[i].k)
            IN  /\ two.record_count = one.record_count
                /\ { <<two.instrument_patterns[n].k, two.instrument_patterns[n].v.count>> :
                       n \in 1..Len(two.instrument_patterns) }
                   = { <<one.instrument_patterns[n].k, one.instrument_patterns[n].v.count>> :
                       n \in 1..Len(one.instrument_patterns) }
                /\ Len(two.instrument_patterns) = Len(one.instrument_patterns)
                /\ { <<two.book_patterns[n].k, count_set(two.book_patterns[n].v.page_patterns),
                        two.book_patterns[n].v.min_page, two.book_patterns[n].v.max_page>> :
                       n \in 1..Len(two.book_patterns) }
                   = { <<one.book_patterns[n].k, count_set(one.book_patterns[n].v.page_patterns),
                        one.book_patterns[n].v.min_page, one.book_patterns[n].v.max_page>> :
                       n \in 1..Len(one.book_patterns) }
                /\ Len(two.book_patterns) = Len(one.book_patterns)
                /\ two.date_range.earliest = one.date_range.earliest
                /\ two.date_range.latest = one.date_range.latest
                /\ two.date_range.anomalies = one.date_range.anomalies

\* two records of one county with the same book and the pages 10 and 5, one
\* record to each worker, merged
C16_Witness ==
  /\ pc = "merged"
  /\ Len(parts[1]) = 1
  /\ Len(parts[2]) = 1
  /\ parts[1][1].k = parts[2][1].k
  /\ Len(merged) = 1
  /\ merged[1].v.record_count = 2
  /\ Len(merged[1].v.book_patterns) = 1
  /\ merged[1].v.book_patterns[1].v.min_page = Num(5)
  /\ merged[1].v.book_patterns[1].v.max_page = Num(10)
  /\ parts[1][1].v.book_patterns[1].v.min_page = Num(10)

(***************************************************************************)
(* llm_classifier.py, main(): the doc_types of the input file are          *)
(* collected and normalized, the keys classified batch by batch by an      *)
(* external classifier, and every line written with its category           *)
(***************************************************************************)
MaxDocs == 2

CATEGORIES ==
  << <<"S","A","L","E","_","D","E","E","D">>,
     <<"M","O","R","T","G","A","G","E">>,
     <<"D","E","E","D","_","O","F","_","T","R","U","S","T">>,
     <<"R","E","L","E","A","S","E">>,
     <<"L","I","E","N">>,
     <<"P","L","A","T">>,
     <<"E","A","S","E","M","E","N","T">>,
     <<"L","E","A","S","E">>,
     <<"M","I","S","C">> >>

MISC == <<"M","I","S","C">>

BATCH_SIZE == 50

\* record.get("doc_type", "") of the lines of the input file
DocTypes == { <<"D","/","T">>, <<"D","E","E","D"," ","T","R","U","S","T">>, <<"M","T","G">>, <<>> }

\* a key of the batch the classifier's JSON object does not hold
Absent == <<"absent">>

\* what the classifier's JSON object may hold for a key: a category, a
\* category in lower case, a word that is no category, null
ReplyValues == { <<"D","E","E","D","_","O","F","_","T","R","U","S","T">>, <<"m","o","r","t","g","a","g","e">>, <<"F","O","R","E","C","L","O","S","U","R","E">>, None }

\* the replies to a batch: text that is not JSON, JSON that is no object, and
\* the JSON objects over the keys of the batch
Replies(batch) ==
  { [kind |-> "text", map |-> <<>>], [kind |-> "array", map |-> <<>>] } \cup
  { [kind |-> "object",
     map  |-> SelectSeq([i \in 1..Len(batch) |-> [k |-> batch[i], v |-> f[i]]],
                        LAMBDA e : e.v # Absent)] :
    f \in [1..Len(batch) -> ReplyValues \cup { Absent }] }

\* collect_unique_normalized: raw_to_norm, from the lines read so far
RECURSIVE collect_raw_to_norm(_, _)
collect_raw_to_norm(lines, acc) ==
  IF Len(lines) = 0 THEN acc
  ELSE LET r == lines[1]
       IN  collect_raw_to_norm(Tail(lines),
             IF r # <<>> /\ r # None /\ ~dict_has(acc, r)
             THEN dict_put(acc, r, normalize(r)) ELSE acc)

\* collect_unique_normalized: sorted(set(raw_to_norm.values()))
unique_norms(rtn) == sorted_set({ rtn[i].v : i \in 1..Len(rtn) })

\* classify_batch raises AttributeError: result.get on JSON that is no
\* object, .upper() on a category that is no string
classify_batch_raises(batch, reply) ==
  \E i \in 1..Len(batch) :
    \/ reply.kind = "array"
    \/ reply.kind = "object" /\ dict_get_default(reply.map, batch[i], MISC) = None

\* classify_batch: the validated categories of the batch
classify_batch(batch, reply) ==
  LET result == IF reply.kind = "text"
                THEN [i \in 1..Len(batch) |-> [k |-> batch[i], v |-> MISC]]
                ELSE reply.map
  IN  [i \in 1..Len(batch) |->
        LET cat == upper(dict_get_default(result, batch[i], MISC))
        IN  [k |-> batch[i], v |-> IF cat \in Range(CATEGORIES) THEN cat ELSE MISC]]

\* d.update(e): the keys of d keep their places and take the values of e,
\* the keys new to d follow in the order of e
dict_update(d, e) ==
  LET last(k) == e[CHOOSE i \in 1..Len(e) :
                     e[i].k = k /\ \A j \in (i + 1)..Len(e) : e[j].k # k].v
      first   == { i \in 1..Len(e) : \A j \in 1..(i - 1) : e[j].k # e[i].k }
      fresh   == SelectSeq([i \in 1..Len(e) |-> [i |-> i, k |-> e[i].k]],
                           LAMBDA x : x.i \in first /\ ~dict_has(d, x.k))
  IN  [i \in 1..Len(d) |->
        IF dict_has(e, d[i].k) THEN [k |-> d[i].k, v |-> last(d[i].k)] ELSE d[i]]
      \o [i \in 1..Len(fresh) |-> [k |-> fresh[i].k, v |-> last(fresh[i].k)]]

\* a build_raw_to_category that looks the raw doc_type up in norm_to_category
build_raw_to_category_by_raw(rtn, ntc) ==
  [i \in 1..Len(rtn) |-> [k |-> rtn[i].k, v |-> dict_get_default(ntc, rtn[i].k, MISC)]]

build_raw_to_category(rtn, ntc) ==
  [i \in 1..Len(rtn) |-> [k |-> rtn[i].k, v |-> dict_get_default(ntc, rtn[i].v, MISC)]]

\* enrich_and_write: the doc_type_category of every line
enrich_and_write(lines, rtc) ==
  [i \in 1..Len(lines) |-> dict_get_default(rtc, lines[i], MISC)]

InitClassify ==
  /\ InitAggIdle
  /\ InitPat
  /\ InitNorm
  /\ docs \in UNION { [1..n -> DocTypes] : n \in 0..MaxDocs }
  /\ raw_to_norm = <<>>
  /\ norms = <<>>
  /\ sent = <<>>
  /\ sleeps = 0
  /\ norm_to_category = <<>>
  /\ raw_to_category = <<>>
  /\ enriched = <<>>
  /\ cpc = "collect"

\* main(), step 1
Collect ==
  /\ cpc = "collect"
  /\ raw_to_norm' = collect_raw_to_norm(docs, <<>>)
  /\ norms' = unique_norms(raw_to_norm')
  /\ cpc' = "classify"
  /\ UNCHANGED <<docs, sent, sleeps, norm_to_category, raw_to_category, enriched,
                 aggVars, patVars, normVars>>

\* classify_all: i of the next iteration of the loop over range(0, len, BATCH_SIZE)
next_i == BATCH_SIZE * Len(sent)

\* a batch that leaves out the last key of the slice
next_batch_one_short ==
  SubSeq(norms, next_i + 1,
         IF next_i + BATCH_SIZE < Len(norms) THEN next_i + BATCH_SIZE - 1
         ELSE Len(norms))

\* classify_all: the batch of the next iteration of the loop
next_batch ==
  SubSeq(norms, next_i + 1,
         IF next_i + BATCH_SIZE < Len(norms) THEN next_i + BATCH_SIZE ELSE Len(norms))

\* classify_all: one iteration of the loop over the batches
ClassifyBatch(reply) ==
  /\ cpc = "classify"
  /\ next_i < Len(norms)
  /\ sent' = Append(sent, next_batch)
  /\ IF classify_batch_raises(next_batch, reply)
     THEN /\ cpc' = "AttributeError"
          /\ UNCHANGED <<norm_to_category, sleeps>>
     ELSE /\ norm_to_category' = dict_update(norm_to_category,
                                             classify_batch(next_batch, reply))
          /\ sleeps' = IF next_i + BATCH_SIZE < Len(norms) THEN sleeps + 1 ELSE sleeps
          /\ UNCHANGED cpc
  /\ UNCHANGED <<docs, raw_to_norm, norms, raw_to_category, enriched,
                 aggVars, patVars, normVars>>

\* main(), step 3, once classify_all has returned
BuildRawToCategory ==
  /\ cpc = "classify"
  /\ next_i >= Len(norms)
  /\ raw_to_category' = build_raw_to_category(raw_to_norm, norm_to_category)
  /\ cpc' = "enrich"
  /\ UNCHANGED <<docs, raw_to_norm, norms, sent, sleeps, norm_to_category, enriched,
                 aggVars, patVars, normVars>>

\* main(), step 4
EnrichAndWrite ==
  /\ cpc = "enrich"
  /\ enriched' = enrich_and_write(docs, raw_to_category)
  /\ cpc' = "done"
  /\ UNCHANGED <<docs, raw_to_norm, norms, sent, sleeps, norm_to_category,
                 raw_to_category, aggVars, patVars, normVars>>

NextClassify ==
  \/ Collect
  \/ \E reply \in Replies(next_batch) : ClassifyBatch(reply)
  \/ BuildRawToCategory
  \/ EnrichAndWrite

SpecClassify == InitClassify /\ [][NextClassify]_vars

\* C18: the enrichment path ends without an error, every category it produces
\* is one of CATEGORIES, and a doc_type or key that has no category in a
\* mapping or in the classifier's reply (none returned, or one outside the
\* set) gets MISC.
C18_EveryCategoryInSetElseMisc ==
  /\ cpc # "AttributeError"
  /\ \A n \in 1..Len(norm_to_category) : norm_to_category[n].v \in Range(CATEGORIES)
  /\ \A n \in 1..Len(raw_to_category) : raw_to_category[n].v \in Range(CATEGORIES)
  /\ cpc = "done" =>
       /\ Len(enriched) = Len(docs)
       /\ \A i \in 1..Len(docs) :
            /\ enriched[i] \in Range(CATEGORIES)
            /\ ~dict_has(raw_to_category, docs[i]) => enriched[i] = MISC

(***************************************************************************)
(* main() on input files of one county with more doc_types than the report *)
(* lists: the doc_types are A, AA, AAA, ... and a record has either a      *)
(* doc_type not seen before or the doc_type of the record before it        *)
(***************************************************************************)
MaxDocTypeRecords == 12

\* a row of county WAKE whose doc_type is n letters long (none for n = 0)
DocTypeRow(n) ==
  [county |-> <<"W","A","K","E">>, instrument_number |-> None, book |-> None,
   page |-> None, date |-> None,
   doc_type |-> IF n = 0 THEN None ELSE [i \in 1..n |-> "A"]]

\* the number of distinct non-empty doc_types of the stream
stream_doc_types == Cardinality({ stream[i].doc_type : i \in 1..Len(stream) } \ { <<>> })

NextDocTypes ==
  \/ \E n \in 0..MaxDocTypeRecords :
       /\ Len(stream) < MaxDocTypeRecords
       /\ \/ n = 0 /\ stream = <<>>
          \/ n > 0 /\ n \in { stream_doc_types, stream_doc_types + 1 }
       /\ ProcessRow(DocTypeRow(n))
  \/ GenerateReport

SpecDocTypes == Init /\ [][NextDocTypes]_vars

\* the doc_types of the records of county c, in file order
CountyDocTypeSeq(c) ==
  LET rs == SelectSeq(CountyRecords(c), LAMBDA r : r.doc_type # <<>>)
  IN  [j \in 1..Len(rs) |-> rs[j].doc_type]

\* C21: doc_type_distribution of a county lists min(10, number of distinct
\* raw doc_types) doc_types with their counts, in descending count order and
\* ties in first-seen order, no doc_type left out has a higher count than a
\* listed one, and unique_doc_types is the number of distinct raw doc_types
\* of the county.
C21_TopTenDocTypes ==
  pc = "report" =>
    \A i \in 1..Len(report) :
      LET dist     == report[i].v.doc_type_distribution
          seq      == CountyDocTypeSeq(report[i].k)
          seen     == Range(seq)
          count(d) == Cardinality({ j \in 1..Len(seq) : seq[j] = d })
          first(d) == CHOOSE j \in 1..Len(seq) :
                        seq[j] = d /\ \A l \in 1..(j - 1) : seq[l] # d
          listed   == { dist[n].k : n \in 1..Len(dist) }
      IN  /\ Len(dist) = IF Cardinality(seen) < 10 THEN Cardinality(seen) ELSE 10
          /\ Cardinality(listed) = Len(dist)
          /\ listed \subseteq seen
          /\ \A n \in 1..Len(dist) : dist[n].v = count(dist[n].k)
          /\ \A n, l \in 1..Len(dist) :
               n < l => \/ dist[n].v > dist[l].v
                        \/ /\ dist[n].v = dist[l].v
                           /\ first(dist[n].k) < first(dist[l].k)
          /\ \A d \in seen \ listed : \A n \in 1..Len(dist) : count(d) <= dist[n].v
          /\ report[i].v.unique_doc_types = Cardinality(seen)

\* a report of a county with eleven doc_types: ten are listed, the one seen
\* last comes first with count 2, the others tie at count 1
C21_Witness ==
  /\ pc = "report"
  /\ \E i \in 1..Len(report) :
       LET dist == report[i].v.doc_type_distribution
       IN  /\ report[i].v.unique_doc_types = 11
           /\ Len(dist) = 10
           /\ dist[1].k = [j \in 1..11 |-> "A"]
           /\ dist[1].v = 2
           /\ dist[2].k = <<"A">>
           /\ dist[10].v = 1

(***************************************************************************)
(* The county table against the records of the stream                      *)
(***************************************************************************)
RECURSIVE sum_record_counts(_)
sum_record_counts(cs) ==
  IF Len(cs) = 0 THEN 0 ELSE cs[1].v.record_count + sum_record_counts(Tail(cs))

\* C22: the county table has exactly one bucket per distinct county key of
\* the records processed, the empty key of records without a county included;
\* the record_count of a bucket is the number of records of its key and the
\* record_counts sum to the number of records processed.
C22_OneBucketPerCountyKey ==
  LET keys == { stream[j].county : j \in 1..Len(stream) }
  IN  /\ { counties[i].k : i \in 1..Len(counties) } = keys
      /\ Len(counties) = Cardinality(keys)
      /\ \A i \in 1..Len(counties) :
           counties[i].v.record_count = Len(CountyRecords(counties[i].k))
      /\ sum_record_counts(counties) = Len(stream)

\* three records processed, two of them without a county
C22_Witness ==
  /\ Len(stream) = 3
  /\ Len(counties) = 2
  /\ dict_has(counties, <<>>)
  /\ dict_get(counties, <<>>).record_count = 2

(***************************************************************************)
(* stem_word on tokens made of a head and a tail: the heads are the first  *)
(* letters of UNIT and LOC, the tails the suffixes of STEM_RULES and a few *)
(* other endings                                                           *)
(***************************************************************************)
MaxHead == 3

StemHeads ==
  { SubSeq(h, 1, n) : h \in { <<"U","N","I","T">>, <<"L","O","C","K">> },
                      n \in 0..(IF MaxHead < 4 THEN MaxHead ELSE 4) }

StemTails ==
  { STEM_RULES[n][1] : n \in 1..Len(STEM_RULES) }
    \cup { <<>>, <<"S">>, <<"S","S">>, <<"E","D">>, <<"E","S","S">> }

\* the tokens stem_word is called with
Tokens == { h \o t : h \in StemHeads, t \in StemTails } \cup STEM_PROTECT

InitStemWord ==
  /\ InitAggIdle
  /\ InitPat
  /\ InitClass
  /\ raw = <<>> /\ key = None /\ rekey = None
  /\ permuted = None /\ permkey = None /\ npc = "idle"
  /\ tok \in Tokens
  /\ stemmed = None
  /\ spc = "token"

\* stem_word(tok)
StemWord ==
  /\ spc = "token"
  /\ stemmed' = stem_word(tok)
  /\ spc' = "stemmed"
  /\ UNCHANGED <<tok, raw, key, rekey, permuted, permkey, npc,
                 aggVars, patVars, classVars>>

NextStemWord == StemWord

SpecStemWord == InitStemWord /\ [][NextStemWord]_vars

\* the rules of the table whose suffix ends w
matching_rules(w) == { n \in 1..Len(STEM_RULES) : endswith(w, STEM_RULES[n][1]) }

\* the rule of R with the longest suffix
longest_rule(R) ==
  CHOOSE n \in R : \A l \in R : Len(STEM_RULES[n][1]) >= Len(STEM_RULES[l][1])

apply_rule(w, n) ==
  SubSeq(w, 1, Len(w) - Len(STEM_RULES[n][1])) \o STEM_RULES[n][2]

strip_plural(w) ==
  IF endswith(w, <<"S">>) /\ ~endswith(w, <<"S","S">>)
  THEN SubSeq(w, 1, Len(w) - 1) ELSE w

\* C23 as stated: a token that is not protected and is longer than 4
\* characters gets the longest rule that matches it, and only if that rule
\* leaves a stem of at least 3 characters; otherwise one trailing S is
\* stripped unless the token ends in SS; protected tokens and tokens of at
\* most 4 characters are returned unchanged.
C23_LongestMatchingRuleOrPlural ==
  spc = "stemmed" =>
    stemmed =
      IF tok \in STEM_PROTECT \/ Len(tok) <= 4 THEN tok
      ELSE LET R == matching_rules(tok) IN
           IF R # {} /\ Len(tok) - Len(STEM_RULES[longest_rule(R)][1]) >= 3
           THEN apply_rule(tok, longest_rule(R))
           ELSE strip_plural(tok)

\* C23, amended: a token that is not protected and is longer than 4
\* characters gets the longest rule among those that match it and leave a
\* stem of at least 3 characters (a longer rule that leaves less is passed
\* over); when no rule matches and leaves 3, one trailing S is stripped unless
\* the token ends in SS; protected tokens and tokens of at most 4 characters
\* are returned unchanged.
C23_LongestFittingRuleOrPlural ==
  spc = "stemmed" =>
    stemmed =
      IF tok \in STEM_PROTECT \/ Len(tok) <= 4 THEN tok
      ELSE LET R == { n \in matching_rules(tok) :
                        Len(tok) - Len(STEM_RULES[n][1]) >= 3 } IN
           IF R # {} THEN apply_rule(tok, longest_rule(R))
           ELSE strip_plural(tok)

\* UNITIES: the rule ITIES leaves UN, the shorter rule IES gives UNITY
C23_Witness ==
  /\ spc = "stemmed"
  /\ tok = <<"U","N","I","T","I","E","S">>
  /\ stemmed = <<"U","N","I","T","Y">>

(***************************************************************************)
(* The doc-type counters against the records of the stream                 *)
(***************************************************************************)
RECURSIVE sum_doc_type_counts(_)
sum_doc_type_counts(c) ==
  IF Len(c) = 0 THEN 0 ELSE c[1].v + sum_doc_type_counts(Tail(c))

\* C24: every record processed adds one to the counter of its raw doc_type,
\* the empty doc_type of a record that has none included: in every county
\* the counter of a doc_type is the number of records that have it and the
\* counters sum to record_count.
C24_DocTypeCountsSumToRecordCount ==
  \A i \in 1..Len(counties) :
    LET counts == counties[i].v.doc_types.counts
        rs     == CountyRecords(counties[i].k)
    IN  /\ \A j \in 1..Len(rs) :
             /\ dict_has(counts, rs[j].doc_type)
             /\ dict_get(counts, rs[j].doc_type) =
                  Cardinality({ l \in 1..Len(rs) : rs[l].doc_type = rs[j].doc_type })
        /\ sum_doc_type_counts(counts) = counties[i].v.record_count

(***************************************************************************)
(* The words of the canonical key                                          *)
(***************************************************************************)
\* C25: no word of the canonical key normalize returns is a stop word, also
\* when the word comes out of abbreviation expansion or of stemming.
C25_NoStopWordInKey ==
  npc # "raw" => \A w \in Range(split(key)) : w \notin STOP_WORDS

MaxKeys == 101

\* the doc_type of line i
ClassifyKey(i) == <<"K">> \o zfill(str_int(i), 3)

\* the canonical keys of the doc_types
ClassifyNorms == [i \in 1..MaxKeys |-> normalize(ClassifyKey(i))]

\* the classifier's replies to a batch that treat all its keys alike
UniformReplies(batch) ==
  { [kind |-> "text", map |-> <<>>], [kind |-> "array", map |-> <<>>],
    [kind |-> "object", map |-> <<>>] } \cup
  { [kind |-> "object", map |-> [i \in 1..Len(batch) |-> [k |-> batch[i], v |-> c]]] :
    c \in ReplyValues }

InitClassifyAll ==
  /\ InitAggIdle
  /\ InitPat
  /\ InitNorm
  /\ \E n \in 0..MaxKeys :
       /\ docs = [i \in 1..n |-> ClassifyKey(i)]
       /\ raw_to_norm = [i \in 1..n |-> [k |-> ClassifyKey(i), v |-> ClassifyNorms[i]]]
       /\ norms = [i \in 1..n |-> ClassifyNorms[i]]
  /\ sent = <<>>
  /\ sleeps = 0
  /\ norm_to_category = <<>>
  /\ raw_to_category = <<>>
  /\ enriched = <<>>
  /\ cpc = "classify"

NextClassifyAll ==
  \/ \E reply \in UniformReplies(next_batch) : ClassifyBatch(reply)
  \/ BuildRawToCategory

SpecClassifyAll == InitClassifyAll /\ [][NextClassifyAll]_vars

\* ceil(n / BATCH_SIZE)
total_batches(n) == (n + BATCH_SIZE - 1) \div BATCH_SIZE

\* C27: classify_all sends the keys of its list to the classifier in list
\* order, in batches of at most 50: batch b is the b-th slice of 50 keys, so
\* every key sent is in exactly one batch; it pauses once after every batch
\* but the last; and when it has returned, it has sent ceil(n/50) batches
\* that hold every key, and the mapping has exactly one category per key.
C27_EveryKeyInOneBatch ==
  LET n == Len(norms)
      returned == \/ cpc \in {"enrich", "done"}
                  \/ cpc = "classify" /\ BATCH_SIZE * Len(sent) >= n
  IN  /\ \A b \in 1..Len(sent) :
           /\ Len(sent[b]) >= 1
           /\ Len(sent[b]) <= BATCH_SIZE
           /\ \A j \in 1..Len(sent[b]) : sent[b][j] = norms[BATCH_SIZE * (b - 1) + j]
           /\ b < Len(sent) => Len(sent[b]) = BATCH_SIZE
      /\ Len(sent) <= total_batches(n)
      /\ cpc # "AttributeError" =>
           sleeps = IF Len(sent) < total_batches(n) THEN Len(sent)
                    ELSE IF Len(sent) = 0 THEN 0 ELSE Len(sent) - 1
      /\ cpc = "AttributeError" => sleeps = Len(sent) - 1
      /\ returned =>
           /\ Len(sent) = total_batches(n)
           /\ \A i \in 1..n :
                Cardinality({ <<b, j>> \in (1..Len(sent)) \X (1..BATCH_SIZE) :
                                j <= Len(sent[b]) /\ sent[b][j] = norms[i] }) = 1
           /\ Len(norm_to_category) = n
           /\ \A i \in 1..n :
                /\ norm_to_category[i].k = norms[i]
                /\ norm_to_category[i].v \in Range(CATEGORIES)

\* classify_all has returned from a list of 101 keys: three batches of 50,
\* 50 and 1 keys, two pauses
C27_Witness ==
  /\ cpc = "enrich"
  /\ Len(norms) = 101
  /\ Len(sent) = 3
  /\ Len(sent[1]) = 50 /\ Len(sent[2]) = 50 /\ Len(sent[3]) = 1
  /\ sleeps = 2
  /\ Len(norm_to_category) = 101

(***************************************************************************)
(* The instrument-pattern entries of the county table                      *)
(***************************************************************************)
\* C28: every instrument-pattern entry of every county has a count of at
\* least 1 and an example whose fingerprint is the pattern the entry is
\* keyed by.
C28_EntriesCountedWithExampleOfTheirPattern ==
  \A i \in 1..Len(counties) :
    LET ip == counties[i].v.instrument_patterns
    IN  \A n \in 1..Len(ip) :
          /\ ip[n].v.count >= 1
          /\ _get_pattern(ip[n].v.example) = ip[n].k

\* a county with the entries of "AB-12" and of the empty instrument_number
C28_Witness ==
  \E i \in 1..Len(counties) :
    LET ip == counties[i].v.instrument_patterns
    IN  /\ dict_has(ip, <<"\\", "u", "{", "2", "}", "-", "\\", "d", "{", "2", "}">>)
        /\ dict_get(ip, <<"\\", "u", "{", "2", "}", "-", "\\", "d", "{", "2", "}">>).example
             = Sample_AB12
        /\ dict_has(ip, <<>>)
        /\ dict_get(ip, <<>>).count = 2

(***************************************************************************)
(* The categories of the variants of a doc_type                            *)
(***************************************************************************)
\* C29: two raw doc_types with the same canonical key have the same category
\* in raw_to_category, and the records that carry them get the same
\* doc_type_category.
C29_SameKeySameCategory ==
  /\ cpc \in {"enrich", "done"} =>
       /\ Len(raw_to_category) = Len(raw_to_norm)
       /\ \A a, b \in 1..Len(raw_to_norm) :
            /\ raw_to_category[a].k = raw_to_norm[a].k
            /\ raw_to_norm[a].v = raw_to_norm[b].v =>
                 raw_to_category[a].v = raw_to_category[b].v
  /\ cpc = "done" =>
       \A i, j \in 1..Len(docs) :
         (/\ docs[i] # <<>> /\ docs[j] # <<>>
          /\ dict_get(raw_to_norm, docs[i]) = dict_get(raw_to_norm, docs[j]))
           => enriched[i] = enriched[j]

\* a file with "D/T" and "DEED TRUST", both of key "DEED TRUST", which the
\* classifier put in DEED_OF_TRUST: both records are written with it
C29_Witness ==
  /\ cpc = "done"
  /\ docs = << Raw_D_T, Key_DEED_TRUST >>
  /\ Len(norms) = 1
  /\ enriched = << CATEGORIES[3], CATEGORIES[3] >>

(***************************************************************************)
(* The fingerprints of values of different shapes                          *)
(***************************************************************************)
\* what position i of v contributes to the shape of v: the class and the
\* length of the run that starts there, or the character that is in no class
ShapeAt(v, i) ==
  IF char_class(v[i]) = "other" THEN << <<"other", <<v[i]>> >> >>
  ELSE IF RunStartsAt(v, i) THEN << <<char_class(v[i]), str_int(RunLength(v, i))>> >>
  ELSE <<>>

\* the shape of v: its maximal runs and its other characters, in order
RECURSIVE ShapeFrom(_, _)
ShapeFrom(v, i) ==
  IF i > Len(v) THEN <<>> ELSE ShapeAt(v, i) \o ShapeFrom(v, i + 1)

\* the pattern and the shape of every raw value
PatternShapes == { <<_get_pattern(w), ShapeFrom(w, 1)>> : w \in PatValues }

\* C30: two values of different shapes never have the same pattern, also
\* when the values contain backslashes and braces: no value whose pattern is
\* the pattern of the value fingerprinted has another shape.
C30_PatternSeparatesShapes ==
  fpc # "raw" =>
    \A e \in PatternShapes : e[1] = pattern => e[2] = ShapeFrom(value, 1)

\* the raw value \d{4}, whose pattern is not the pattern \d{4} of four digits
C30_Witness ==
  /\ fpc = "once"
  /\ value = Sample_Braces
  /\ pattern = <<"\\","\\","l","{","1","}","{","\\","d","{","1","}","}">>

====
